---- MODULE Spec2Model ----
(***************************************************************************)
(* Model of the privacy pool of Neelesh000/zgas: the on-chain incremental  *)
(* Merkle tree with root history (MerkleTreeWithHistory.sol), the pool     *)
(* (PrivacyPool.sol), the compliance registry (ASPRegistry.sol), the SDK   *)
(* tree (sdk/src/merkle.ts) and the relayer's ASP tree (ASPMerkleTree).    *)
(*                                                                         *)
(* bytes32 / field values are sequences of naturals.  A leaf n is <<n>>,   *)
(* bytes32(0) is <<0>>, and a hash is the term <<tag, Len(l)>> \o l \o r:  *)
(* the hash functions (Poseidon, keccak256) are modelled as free,          *)
(* collision-free constructors, one tag per function.                      *)
(***************************************************************************)
EXTENDS Integers, Sequences, FiniteSets, Bags, TLC

\* ------------------------------------------------------------------------
\* Bounds of the model (the deployed values are 20 and 30).
TREE_DEPTH == 2
ROOT_HISTORY_SIZE == 2

\* The pool's fixed denomination (a constructor argument, > 0).
denomination == 2

\* The paymaster's cap on the cost of one sponsored operation (a constructor
\* argument, changed by the owner with setMaxGasSponsorship).
maxGasSponsorship == 1

\* Leaves offered to the bare tree (TestMerkleTree.insert); <<0>> is the
\* zero leaf bytes32(0).
Leaves == {<<0>>, <<1>>, <<2>>}

\* ------------------------------------------------------------------------
\* Hash primitives
PoseidonTag == 1
KeccakTag == 2

Hash(tag, l, r) == <<tag, Len(l)>> \o l \o r

ZeroBytes32 == <<0>>

Pow2(n) == 2 ^ n

\* ------------------------------------------------------------------------
\* State
VARIABLES
    currentRootIndex,   \* MerkleTreeWithHistory.currentRootIndex
    nextLeafIndex,      \* MerkleTreeWithHistory.nextLeafIndex
    roots,              \* MerkleTreeWithHistory.roots (slot -> root)
    filledSubtrees,     \* MerkleTreeWithHistory.filledSubtrees
    leafLog,            \* LeafInserted events, in order: the leaves
    rootLog,            \* LeafInserted events, in order: the new roots
    lastInsert,         \* outcome of the last TestMerkleTree.insert call
    sdkLeaves,          \* sdk MerkleTree.leaves
    sdkLayers,          \* sdk MerkleTree.layers
    sdkLastInsert,      \* outcome of the last sdk MerkleTree.insert call
    nullifierHashes,    \* PrivacyPool.nullifierHashes: the keys mapped to true
    commitments,        \* PrivacyPool.commitments: the keys mapped to true
    balance,            \* native balance of each address
    aspCurrentRootIndex,\* ASPRegistry.currentRootIndex
    aspRoots,           \* ASPRegistry.aspRoots (slot -> root)
    spendCount,         \* per nullifier hash, the number of successful withdraws
    tx,                 \* the transaction waiting to be executed, or NoTx
    receipt,            \* outcome of the last executed transaction
    blockedCommitments, \* ASPRegistry.blockedCommitments: the keys mapped to true
    sponsorshipNullifiers, \* PrivacyPaymaster.sponsorshipNullifiers: keys mapped to true
    sponsorLog,         \* successful sponsorships: nullifier hash, and whether the
                        \* note's withdrawal nullifier was already spent
    aspLeaves,          \* the operator's approved commitments, in order
    chainEvents,        \* Deposit events of the watched pools, one per block
    oracleUp,           \* whether the Chainalysis oracle call returns
    ofacAddresses,      \* screening.service: the cached local OFAC list
    running,            \* whether the relayer process is up
    dbDeposits,         \* table deposits: commitment -> row
    aspTree,            \* ASPMerkleTree.leaves of the relayer's singleton
    queue,              \* blocks of the events the watcher has yet to process
    processing,         \* blocks of the processDeposit calls awaiting checkAddress
    subscribed,         \* whether the watcher's Deposit listener is attached
    pubPending,         \* roots read by publishASPRoot calls awaiting their send
    updateCalls,        \* registry.updateASPRoot calls made, in order
    withdrawals,        \* table withdrawals: the rows, a row's id is its position
    submits,            \* queueWithdrawal calls between validation and INSERT
    ticks,              \* processor ticks holding the answer of getDueWithdrawals
    submissions,        \* submitWithdrawal calls in flight
    activeSubmissions,  \* withdrawalProcessor.activeSubmissions
    processor           \* withdrawalProcessor: whether the interval is installed yet,
                        \* and whether the process was started again

treeVars == <<currentRootIndex, nextLeafIndex, roots, filledSubtrees, leafLog, rootLog>>
sdkVars == <<sdkLeaves, sdkLayers, sdkLastInsert>>
poolVars == <<nullifierHashes, commitments, balance, spendCount>>
aspVars == <<aspCurrentRootIndex, aspRoots>>
noteVars == <<blockedCommitments, sponsorshipNullifiers, sponsorLog, aspLeaves>>
coordVars == <<chainEvents, oracleUp, ofacAddresses, running, dbDeposits, aspTree,
               queue, processing, subscribed, pubPending, updateCalls>>
schedVars == <<withdrawals, submits, ticks, submissions, activeSubmissions, processor>>
extVars == <<noteVars, coordVars, schedVars>>
vars == <<currentRootIndex, nextLeafIndex, roots, filledSubtrees, leafLog, rootLog,
          lastInsert, sdkLeaves, sdkLayers, sdkLastInsert, nullifierHashes, commitments, balance,
          aspCurrentRootIndex, aspRoots, spendCount, tx, receipt,
          blockedCommitments, sponsorshipNullifiers, sponsorLog, aspLeaves,
          chainEvents, oracleUp, ofacAddresses, running, dbDeposits, aspTree,
          queue, processing, subscribed, pubPending, updateCalls,
          withdrawals, submits, ticks, submissions, activeSubmissions, processor>>

\* ------------------------------------------------------------------------
\* MerkleTreeWithHistory.sol

\* hasher.poseidon([left, right])
hashLeftRight(left, right) == Hash(PoseidonTag, left, right)

\* constructor: zeros[i], and the value of currentZero after i iterations
RECURSIVE zeros(_)
zeros(i) == IF i = 0 THEN ZeroBytes32 ELSE hashLeftRight(zeros(i - 1), zeros(i - 1))

InitialRoots == [s \in 0..(ROOT_HISTORY_SIZE - 1) |->
                    IF s = 0 THEN zeros(TREE_DEPTH) ELSE ZeroBytes32]

InitialFilledSubtrees == [i \in 0..(TREE_DEPTH - 1) |-> zeros(i)]

\* insertLoop with a right child hashed against the empty subtree instead of
\* the stored left sibling
RECURSIVE insertLoopZeroLeft(_, _, _, _)
insertLoopZeroLeft(i, currentIndex, currentLevelHash, fs) ==
    IF i >= TREE_DEPTH
    THEN [hash |-> currentLevelHash, filled |-> fs]
    ELSE IF currentIndex % 2 = 0
         THEN insertLoopZeroLeft(i + 1, currentIndex \div 2,
                                 hashLeftRight(currentLevelHash, zeros(i)),
                                 [fs EXCEPT ![i] = currentLevelHash])
         ELSE insertLoopZeroLeft(i + 1, currentIndex \div 2,
                                 hashLeftRight(zeros(i), currentLevelHash),
                                 fs)

\* the for loop of _insert, from level i upward
RECURSIVE insertLoop(_, _, _, _)
insertLoop(i, currentIndex, currentLevelHash, fs) ==
    IF i >= TREE_DEPTH
    THEN [hash |-> currentLevelHash, filled |-> fs]
    ELSE IF currentIndex % 2 = 0
         THEN insertLoop(i + 1, currentIndex \div 2,
                         hashLeftRight(currentLevelHash, zeros(i)),
                         [fs EXCEPT ![i] = currentLevelHash])
         ELSE insertLoop(i + 1, currentIndex \div 2,
                         hashLeftRight(fs[i], currentLevelHash),
                         fs)

\* _insert with the capacity test off by one
_insertCapacityOffByOne(leaf) ==
    IF nextLeafIndex > Pow2(TREE_DEPTH)
    THEN [reverted |-> TRUE, leafIndex |-> nextLeafIndex, newRoot |-> ZeroBytes32,
          currentRootIndex |-> currentRootIndex, roots |-> roots,
          filledSubtrees |-> filledSubtrees, nextLeafIndex |-> nextLeafIndex]
    ELSE LET r == insertLoop(0, nextLeafIndex, leaf, filledSubtrees)
             newRootIndex == (currentRootIndex + 1) % ROOT_HISTORY_SIZE
         IN  [reverted |-> FALSE, leafIndex |-> nextLeafIndex, newRoot |-> r.hash,
              currentRootIndex |-> newRootIndex,
              roots |-> [roots EXCEPT ![newRootIndex] = r.hash],
              filledSubtrees |-> r.filled,
              nextLeafIndex |-> nextLeafIndex + 1]

\* _insert returning the index after the increment
_insertReturnsNextIndex(leaf) ==
    IF nextLeafIndex >= Pow2(TREE_DEPTH)
    THEN [reverted |-> TRUE, leafIndex |-> nextLeafIndex, newRoot |-> ZeroBytes32,
          currentRootIndex |-> currentRootIndex, roots |-> roots,
          filledSubtrees |-> filledSubtrees, nextLeafIndex |-> nextLeafIndex]
    ELSE LET r == insertLoop(0, nextLeafIndex, leaf, filledSubtrees)
             newRootIndex == (currentRootIndex + 1) % ROOT_HISTORY_SIZE
         IN  [reverted |-> FALSE, leafIndex |-> nextLeafIndex + 1, newRoot |-> r.hash,
              currentRootIndex |-> newRootIndex,
              roots |-> [roots EXCEPT ![newRootIndex] = r.hash],
              filledSubtrees |-> r.filled,
              nextLeafIndex |-> nextLeafIndex + 1]

\* _insert(leaf): the storage after the call, or reverted with MerkleTreeFull
_insert(leaf) ==
    IF nextLeafIndex >= Pow2(TREE_DEPTH)
    THEN [reverted |-> TRUE, leafIndex |-> nextLeafIndex, newRoot |-> ZeroBytes32,
          currentRootIndex |-> currentRootIndex, roots |-> roots,
          filledSubtrees |-> filledSubtrees, nextLeafIndex |-> nextLeafIndex]
    ELSE LET r == insertLoop(0, nextLeafIndex, leaf, filledSubtrees)
             newRootIndex == (currentRootIndex + 1) % ROOT_HISTORY_SIZE
         IN  [reverted |-> FALSE, leafIndex |-> nextLeafIndex, newRoot |-> r.hash,
              currentRootIndex |-> newRootIndex,
              roots |-> [roots EXCEPT ![newRootIndex] = r.hash],
              filledSubtrees |-> r.filled,
              nextLeafIndex |-> nextLeafIndex + 1]

\* the scan of isKnownRoot: i iterations done, now at slot idx
RECURSIVE isKnownRootLoop(_, _, _)
isKnownRootLoop(root, idx, i) ==
    IF i >= ROOT_HISTORY_SIZE THEN FALSE
    ELSE IF roots[idx] = root THEN TRUE
    ELSE isKnownRootLoop(root, IF idx = 0 THEN ROOT_HISTORY_SIZE - 1 ELSE idx - 1, i + 1)

isKnownRoot(root) ==
    IF root = ZeroBytes32 THEN FALSE
    ELSE isKnownRootLoop(root, currentRootIndex, 0)

getLastRoot == roots[currentRootIndex]

\* ------------------------------------------------------------------------
\* sdk/src/merkle.ts: MerkleTree.  A layer is a JavaScript array: a
\* sequence whose holes (never assigned slots) are Undefined.
Undefined == <<>>

\* init(): zeroValues[i], i in 0..depth
RECURSIVE sdkZeroValues(_)
sdkZeroValues(i) ==
    IF i = 0 THEN ZeroBytes32
    ELSE Hash(PoseidonTag, sdkZeroValues(i - 1), sdkZeroValues(i - 1))

\* _hash(left, right)
sdkHash(left, right) == Hash(PoseidonTag, left, right)

\* arr[index] = value on a JavaScript array (index from 0)
RECURSIVE ArraySet(_, _, _)
ArraySet(arr, index, value) ==
    IF index < Len(arr) THEN [arr EXCEPT ![index + 1] = value]
    ELSE IF index = Len(arr) THEN Append(arr, value)
    ELSE ArraySet(Append(arr, Undefined), index, value)

\* _getNode(level, index) on the given layers
sdkGetNode(layers, level, index) ==
    IF index < Len(layers[level]) /\ layers[level][index + 1] # Undefined
    THEN layers[level][index + 1]
    ELSE sdkZeroValues(level)

\* _rebuildFromIndex: the loop from `level` upward
RECURSIVE sdkRebuildLoop(_, _, _)
sdkRebuildLoop(layers, level, currentIndex) ==
    IF level >= TREE_DEPTH THEN layers
    ELSE LET pairIndex == IF currentIndex % 2 = 0 THEN currentIndex + 1 ELSE currentIndex - 1
             leftIndex == IF currentIndex < pairIndex THEN currentIndex ELSE pairIndex
             rightIndex == IF currentIndex > pairIndex THEN currentIndex ELSE pairIndex
             left == sdkGetNode(layers, level, leftIndex)
             right == sdkGetNode(layers, level, rightIndex)
             parentIndex == currentIndex \div 2
             parentHash == sdkHash(left, right)
         IN  sdkRebuildLoop(
                 [layers EXCEPT ![level + 1] = ArraySet(layers[level + 1], parentIndex, parentHash)],
                 level + 1, parentIndex)

\* insert(leaf): new leaves and layers, or thrown "Merkle tree is full"
sdkInsert(leaf) ==
    LET index == Len(sdkLeaves) IN
    IF index >= Pow2(TREE_DEPTH)
    THEN [thrown |-> TRUE, index |-> index, leaves |-> sdkLeaves, layers |-> sdkLayers]
    ELSE LET newLeaves == Append(sdkLeaves, leaf)
             layers0 == [sdkLayers EXCEPT ![0] = newLeaves]
         IN  [thrown |-> FALSE, index |-> index, leaves |-> newLeaves,
              layers |-> sdkRebuildLoop(layers0, 0, index)]

\* getRoot()
sdkGetRoot ==
    IF Len(sdkLeaves) = 0 THEN sdkZeroValues(TREE_DEPTH)
    ELSE sdkGetNode(sdkLayers, TREE_DEPTH, 0)

\* sdkProofLoop with the sibling always taken to the right
RECURSIVE sdkProofLoopRightSibling(_, _, _, _)
sdkProofLoopRightSibling(level, currentIndex, pathElements, pathIndices) ==
    IF level >= TREE_DEPTH
    THEN [pathElements |-> pathElements, pathIndices |-> pathIndices]
    ELSE LET isRight == currentIndex % 2 = 1
             siblingIndex == currentIndex + 1
         IN  sdkProofLoopRightSibling(level + 1, currentIndex \div 2,
                          Append(pathElements, sdkGetNode(sdkLayers, level, siblingIndex)),
                          Append(pathIndices, IF isRight THEN 1 ELSE 0))

\* getProof: the loop from `level` upward
RECURSIVE sdkProofLoop(_, _, _, _)
sdkProofLoop(level, currentIndex, pathElements, pathIndices) ==
    IF level >= TREE_DEPTH
    THEN [pathElements |-> pathElements, pathIndices |-> pathIndices]
    ELSE LET isRight == currentIndex % 2 = 1
             siblingIndex == IF isRight THEN currentIndex - 1 ELSE currentIndex + 1
         IN  sdkProofLoop(level + 1, currentIndex \div 2,
                          Append(pathElements, sdkGetNode(sdkLayers, level, siblingIndex)),
                          Append(pathIndices, IF isRight THEN 1 ELSE 0))

\* getProof(leafIndex), for 0 <= leafIndex < leaves.length
sdkGetProof(leafIndex) ==
    LET p == sdkProofLoop(0, leafIndex, <<>>, <<>>)
    IN  [leaf |-> sdkLeaves[leafIndex + 1], pathElements |-> p.pathElements,
         pathIndices |-> p.pathIndices, root |-> sdkGetRoot]

\* ------------------------------------------------------------------------
\* relayer: ASPMerkleTree (keccak256 stands in for Poseidon there; the
\* hash is a parameter so that the builder can be compared under one hash)

RECURSIVE aspZeroValues(_, _)
aspZeroValues(tag, i) ==
    IF i = 0 THEN ZeroBytes32
    ELSE Hash(tag, aspZeroValues(tag, i - 1), aspZeroValues(tag, i - 1))

\* one level of rebuildTree: the layer above prevLayer, pairs from i on
RECURSIVE aspBuildLayer(_, _, _, _, _)
aspBuildLayer(tag, prevLayer, level, i, currentLayer) ==
    IF i >= Len(prevLayer) THEN currentLayer
    ELSE LET left == prevLayer[i + 1]
             right == IF i + 1 < Len(prevLayer) THEN prevLayer[i + 2]
                      ELSE aspZeroValues(tag, level - 1)
         IN  aspBuildLayer(tag, prevLayer, level, i + 2,
                           Append(currentLayer, Hash(tag, left, right)))

RECURSIVE aspBuildUp(_, _, _)
aspBuildUp(tag, layers, level) ==
    IF level > TREE_DEPTH THEN layers
    ELSE aspBuildUp(tag,
                    Append(layers, aspBuildLayer(tag, layers[level], level, 0, <<>>)),
                    level + 1)

\* rebuildTree(): all layers (layers[k + 1] is level k) from the leaves
aspRebuildTree(tag, leaves) ==
    LET maxLeaves == Pow2(TREE_DEPTH)
        layer0 == [i \in 1..maxLeaves |->
                      IF i - 1 < Len(leaves) THEN leaves[i] ELSE aspZeroValues(tag, 0)]
    IN  aspBuildUp(tag, <<layer0>>, 1)

\* get root()
aspRoot(tag, leaves) ==
    LET layers == aspRebuildTree(tag, leaves) IN
    IF Len(layers) = 0 \/ Len(layers[TREE_DEPTH + 1]) = 0 THEN ZeroBytes32
    ELSE layers[TREE_DEPTH + 1][1]

\* getProof: the for loop over the levels, from the leaf at index
aspGetProofLoop(tag, layers, index) ==
    LET step[l \in 0..TREE_DEPTH] ==
            \* <<currentIndex, pathElements, pathIndices>> after l levels
            IF l = 0 THEN <<index, <<>>, <<>> >>
            ELSE LET prev == step[l - 1]
                     idx == prev[1]
                     siblingIndex == IF idx % 2 = 0 THEN idx + 1 ELSE idx - 1
                     sibling == IF siblingIndex < Len(layers[l])
                                THEN layers[l][siblingIndex + 1]
                                ELSE aspZeroValues(tag, l - 1)
                 IN  <<idx \div 2, Append(prev[2], sibling), Append(prev[3], idx % 2)>>
    IN  [pathElements |-> step[TREE_DEPTH][2], pathIndices |-> step[TREE_DEPTH][3]]

\* getProof(index): the siblings and direction bits, or null
aspGetProof(tag, leaves, index) ==
    IF index < 0 \/ index >= Len(leaves) THEN [isNull |-> TRUE]
    ELSE [isNull |-> FALSE]
         @@ aspGetProofLoop(tag, aspRebuildTree(tag, leaves), index)

\* indexOf(commitment): the first position from 0, or -1
aspIndexOf(leaves, commitment) ==
    IF \E i \in 1..Len(leaves) : leaves[i] = commitment
    THEN (CHOOSE i \in 1..Len(leaves) :
             leaves[i] = commitment /\ \A j \in 1..(i - 1) : leaves[j] # commitment) - 1
    ELSE -1

\* ------------------------------------------------------------------------
\* sdk: poseidonHash1 / poseidonHash2 and note derivation.  The one-input
\* Poseidon is a function of its own: its terms carry arity mark 0, which no
\* two-input term has.
poseidonHash1(input) == <<PoseidonTag, 0>> \o input
poseidonHash2(left, right) == Hash(PoseidonTag, left, right)

\* the sponsorship domain separator, BigInt(2)
DomainSeparator == <<2>>

\* notes: (secret, nullifier) pairs drawn by randomFieldElement
Notes == { [secret |-> <<11>>, nullifier |-> <<12>>],
           [secret |-> <<13>>, nullifier |-> <<14>>] }

\* nullifier seeds the derivations are compared on; <<2>> is the separator
\* itself used as a seed
NullifierSeeds == {<<0>>, <<1>>, <<2>>, <<12>>, <<14>>}

\* generateNote / deriveNote: the three derived fields
commitmentOf(secret, nullifier) == poseidonHash2(secret, nullifier)
nullifierHashOf(nullifier) == poseidonHash1(nullifier)

\* the sponsorship hash derived without the separator
sponsorshipNullifierHashOfNoDomain(nullifier) == poseidonHash1(nullifier)

sponsorshipNullifierHashOf(nullifier) == poseidonHash2(nullifier, DomainSeparator)

noteCommitment(note) == commitmentOf(note.secret, note.nullifier)
noteNullifierHash(note) == nullifierHashOf(note.nullifier)
noteSponsorshipNullifierHash(note) == sponsorshipNullifierHashOf(note.nullifier)

\* ------------------------------------------------------------------------
\* Addresses and transaction inputs
PoolAddress == 1        \* address(this): PrivacyPool has no receive/fallback
Alice == 2              \* an externally owned account
Bob == 3                \* an externally owned account

Addresses == {PoolAddress, Alice, Bob}

\* accounts whose empty-calldata call succeeds
PayableAddresses == {Alice, Bob}

NextAddress(a) == IF a = Bob THEN PoolAddress ELSE a + 1

\* uint256(n) as a field value / bytes32(uint256(n))
Uint256(n) == <<n>>

\* uint256(uint160(address(a))): the 160-bit number, zero-extended
AddressToUint256(a) == Uint256(a)

Commitments == {ZeroBytes32, <<1>>}
NullifierValues == {<<7>>, <<8>>}
PublishedASPRoot == <<21>>

\* every value offered as a withdrawal nullifier hash
SpendKeys ==
    NullifierValues \cup {noteNullifierHash(n) : n \in Notes}
                    \cup {noteSponsorshipNullifierHash(n) : n \in Notes}

NoTx == [op |-> "none"]
NoReceipt == [op |-> "none", status |-> "none", payments |-> <<>>, verifierCalled |-> FALSE]

\* ------------------------------------------------------------------------
\* ASPRegistry.sol

InitialASPRoots == [s \in 0..(ROOT_HISTORY_SIZE - 1) |-> ZeroBytes32]

updateASPRootNoAdvance(newRoot) ==
    [currentRootIndex |-> aspCurrentRootIndex,
     aspRoots |-> [aspRoots EXCEPT ![aspCurrentRootIndex] = newRoot]]

\* updateASPRoot(newRoot), called by the owner
updateASPRoot(newRoot) ==
    LET newIndex == (aspCurrentRootIndex + 1) % ROOT_HISTORY_SIZE
    IN  [currentRootIndex |-> newIndex,
         aspRoots |-> [aspRoots EXCEPT ![newIndex] = newRoot]]

RECURSIVE isKnownASPRootLoop(_, _, _)
isKnownASPRootLoop(root, idx, i) ==
    IF i >= ROOT_HISTORY_SIZE THEN FALSE
    ELSE IF aspRoots[idx] = root THEN TRUE
    ELSE isKnownASPRootLoop(root, IF idx = 0 THEN ROOT_HISTORY_SIZE - 1 ELSE idx - 1, i + 1)

isKnownASPRootNoZeroCheck(root) == isKnownASPRootLoop(root, aspCurrentRootIndex, 0)

isKnownASPRoot(root) ==
    IF root = ZeroBytes32 THEN FALSE
    ELSE isKnownASPRootLoop(root, aspCurrentRootIndex, 0)

\* ------------------------------------------------------------------------
\* Verifier: WithdrawVerifier wraps the snarkjs Groth16 verifier

\* A proof blob: wellFormed when abi.decode accepts it; statement is the
\* public-input vector the proof was generated for.
Proof(statement) == [wellFormed |-> TRUE, statement |-> statement]
MalformedProof == [wellFormed |-> FALSE, statement |-> <<>>]

\* WithdrawGroth16Verifier.verifyProof: a proof verifies against exactly the
\* public inputs it was generated for
groth16VerifyProof(proof, signals) == proof.statement = signals

\* WithdrawVerifier.verifyProof: "revert", or the verifier's answer
verifyProof(proof, pubSignals) ==
    IF Len(pubSignals) # 7 THEN "revert"
    ELSE IF groth16VerifyProof(proof, pubSignals) THEN "true" ELSE "false"

\* ------------------------------------------------------------------------
\* PrivacyPool.sol

\* deposit: the two guards, in order
depositChecksNoDuplicate(commitment, value) ==
    IF value # denomination THEN "InvalidDenomination"
    ELSE "pass"

depositChecks(commitment, value) ==
    IF value # denomination THEN "InvalidDenomination"
    ELSE IF commitment \in commitments THEN "CommitmentAlreadyExists"
    ELSE "pass"

\* deposit(commitment) with msg.value = value: status, storage after, and
\* the arguments of the Deposit event (none when the call reverts)
deposit(commitment, value) ==
    LET c == depositChecks(commitment, value)
        r == _insert(commitment)
        unchanged == [commitments |-> commitments, balance |-> balance,
                      currentRootIndex |-> currentRootIndex, roots |-> roots,
                      filledSubtrees |-> filledSubtrees, nextLeafIndex |-> nextLeafIndex,
                      inserted |-> FALSE, newRoot |-> ZeroBytes32, emitted |-> <<>>]
    IN  IF c # "pass" THEN [status |-> c] @@ unchanged
        ELSE IF r.reverted THEN [status |-> "MerkleTreeFull"] @@ unchanged
        ELSE [status |-> "ok",
              commitments |-> commitments \cup {commitment},
              balance |-> [balance EXCEPT ![PoolAddress] = @ + value],
              currentRootIndex |-> r.currentRootIndex, roots |-> r.roots,
              filledSubtrees |-> r.filledSubtrees, nextLeafIndex |-> r.nextLeafIndex,
              inserted |-> TRUE, newRoot |-> r.newRoot,
              emitted |-> <<commitment, r.leafIndex>>]

\* withdraw: the four guards before the proof is decoded, in order
withdrawGatesNullifierLast(t) ==
    IF ~isKnownRoot(t.root) THEN "InvalidMerkleRoot"
    ELSE IF ~isKnownASPRoot(t.aspRoot) THEN "Invalid ASP root"
    ELSE IF t.fee > denomination THEN "InvalidFee"
    ELSE IF t.nullifierHash \in nullifierHashes THEN "NullifierAlreadySpent"
    ELSE "pass"

withdrawGatesNoASP(t) ==
    IF t.nullifierHash \in nullifierHashes THEN "NullifierAlreadySpent"
    ELSE IF ~isKnownRoot(t.root) THEN "InvalidMerkleRoot"
    ELSE IF t.fee > denomination THEN "InvalidFee"
    ELSE "pass"

withdrawGates(t) ==
    IF t.nullifierHash \in nullifierHashes THEN "NullifierAlreadySpent"
    ELSE IF ~isKnownRoot(t.root) THEN "InvalidMerkleRoot"
    ELSE IF ~isKnownASPRoot(t.aspRoot) THEN "Invalid ASP root"
    ELSE IF t.fee > denomination THEN "InvalidFee"
    ELSE "pass"

\* withdraw: pubSignals
withdrawPubSignalsRelayerTwice(t) ==
    << t.root, t.nullifierHash, AddressToUint256(t.relayer), AddressToUint256(t.relayer),
       Uint256(t.fee), Uint256(t.refund), t.aspRoot >>

withdrawPubSignals(t) ==
    << t.root, t.nullifierHash, AddressToUint256(t.recipient), AddressToUint256(t.relayer),
       Uint256(t.fee), Uint256(t.refund), t.aspRoot >>

\* nullifierHashes[_nullifierHash] = true
markSpentNot(nullifierHash) == nullifierHashes

markSpent(nullifierHash) == nullifierHashes \cup {nullifierHash}

callNoDebit(bal, to, amount) ==
    IF to \in PayableAddresses /\ bal[PoolAddress] >= amount
    THEN [success |-> TRUE, balance |-> [bal EXCEPT ![to] = @ + amount]]
    ELSE [success |-> FALSE, balance |-> bal]

\* to.call{value: amount}("") from the pool, on balances bal.  The callee
\* either takes the value or fails; withdraw is nonReentrant, so a callee that
\* calls back into withdraw makes its own call fail, which is the second case.
call(bal, to, amount) ==
    IF to \in PayableAddresses /\ bal[PoolAddress] >= amount
    THEN [success |-> TRUE,
          balance |-> [[bal EXCEPT ![PoolAddress] = @ - amount] EXCEPT ![to] = @ + amount]]
    ELSE [success |-> FALSE, balance |-> bal]

\* withdraw: the transfers, on the storage with the nullifier marked
withdrawPayoutFeeNotDeducted(t, marked) ==
    LET recipientAmount == denomination
        c1 == call(balance, t.recipient, recipientAmount)
        c2 == call(c1.balance, t.relayer, t.fee)
    IN  IF ~c1.success
        THEN [status |-> "PaymentFailed", nullifierHashes |-> marked,
              balance |-> c1.balance, payments |-> <<>>]
        ELSE IF t.fee > 0
        THEN IF ~c2.success
             THEN [status |-> "PaymentFailed", nullifierHashes |-> marked,
                   balance |-> c1.balance, payments |-> <<<<t.recipient, recipientAmount>>>>]
             ELSE [status |-> "ok", nullifierHashes |-> marked, balance |-> c2.balance,
                   payments |-> <<<<t.recipient, recipientAmount>>, <<t.relayer, t.fee>>>>]
        ELSE [status |-> "ok", nullifierHashes |-> marked, balance |-> c1.balance,
              payments |-> <<<<t.recipient, recipientAmount>>>>]

withdrawPayout(t, marked) ==
    LET recipientAmount == denomination - t.fee
        c1 == call(balance, t.recipient, recipientAmount)
        c2 == call(c1.balance, t.relayer, t.fee)
    IN  IF ~c1.success
        THEN [status |-> "PaymentFailed", nullifierHashes |-> marked,
              balance |-> c1.balance, payments |-> <<>>]
        ELSE IF t.fee > 0
        THEN IF ~c2.success
             THEN [status |-> "PaymentFailed", nullifierHashes |-> marked,
                   balance |-> c1.balance, payments |-> <<<<t.recipient, recipientAmount>>>>]
             ELSE [status |-> "ok", nullifierHashes |-> marked, balance |-> c2.balance,
                   payments |-> <<<<t.recipient, recipientAmount>>, <<t.relayer, t.fee>>>>]
        ELSE [status |-> "ok", nullifierHashes |-> marked, balance |-> c1.balance,
              payments |-> <<<<t.recipient, recipientAmount>>>>]

\* revert: the storage and balances of the call's start, nothing sent
revertKeepsEffects(status, partial) ==
    [status |-> status, nullifierHashes |-> partial.nullifierHashes,
     balance |-> partial.balance, payments |-> partial.payments]

revert(status, partial) ==
    [status |-> status, nullifierHashes |-> nullifierHashes,
     balance |-> balance, payments |-> <<>>]

\* withdraw(t.proof, t.root, t.nullifierHash, t.recipient, t.relayer, t.fee,
\* t.refund, t.aspRoot): status, storage after, and whether the verifier ran
withdraw(t) ==
    LET g == withdrawGates(t)
        start == [nullifierHashes |-> nullifierHashes, balance |-> balance, payments |-> <<>>]
        pubSignals == withdrawPubSignals(t)
        v == verifyProof(t.proof, pubSignals)
        paid == withdrawPayout(t, markSpent(t.nullifierHash))
    IN  IF g # "pass" THEN revert(g, start) @@ [verifierCalled |-> FALSE]
        ELSE IF ~t.proof.wellFormed
        THEN revert("ProofDecodeError", start) @@ [verifierCalled |-> FALSE]
        ELSE IF v = "revert"
        THEN revert("VerifierReverted", start) @@ [verifierCalled |-> TRUE]
        ELSE IF v = "false"
        THEN revert("InvalidWithdrawProof", start) @@ [verifierCalled |-> TRUE]
        ELSE IF paid.status # "ok"
        THEN revert(paid.status, paid) @@ [verifierCalled |-> TRUE]
        ELSE paid @@ [verifierCalled |-> TRUE]

\* ------------------------------------------------------------------------
\* Transactions offered to the chain

RootChoices == {getLastRoot, zeros(TREE_DEPTH), ZeroBytes32}
ASPRootChoices == {PublishedASPRoot, ZeroBytes32}
FeeChoices == {0, 1, denomination, denomination + 1}
\* _refund is "0 for BNB"
RefundChoices == {0}
RecipientChoices == {Alice, PoolAddress}

WithdrawArgs ==
    [root : RootChoices, nullifierHash : NullifierValues, recipient : RecipientChoices,
     relayer : Addresses, fee : FeeChoices, refund : RefundChoices, aspRoot : ASPRootChoices]

\* the public inputs the call's arguments stand for
Statement(a) ==
    << a.root, a.nullifierHash, AddressToUint256(a.recipient), AddressToUint256(a.relayer),
       Uint256(a.fee), Uint256(a.refund), a.aspRoot >>

\* proofs a caller may attach: one made for the call's own arguments, one
\* made for another recipient, relayer, fee or refund each, and a blob that
\* does not decode
ProofChoices(a) ==
    { Proof(Statement(a)),
      Proof(Statement([a EXCEPT !.recipient = NextAddress(a.recipient)])),
      Proof(Statement([a EXCEPT !.relayer = NextAddress(a.relayer)])),
      Proof(Statement([a EXCEPT !.fee = (a.fee + 1) % (denomination + 2)])),
      Proof(Statement([a EXCEPT !.refund = a.refund + 1])),
      MalformedProof }

PoolInit ==
    /\ nullifierHashes = {}
    /\ commitments = {}
    /\ balance = [a \in Addresses |-> 0]
    /\ spendCount = [n \in SpendKeys |-> 0]

ASPInit ==
    /\ aspCurrentRootIndex = 0
    /\ aspRoots = InitialASPRoots

SubmitDepositOf(offered) ==
    /\ tx = NoTx
    /\ \E commitment \in offered, value \in {denomination, denomination - 1} :
          tx' = [op |-> "deposit", commitment |-> commitment, value |-> value]
    /\ receipt' = NoReceipt
    /\ UNCHANGED <<treeVars, lastInsert, sdkVars, poolVars, aspVars, extVars>>

SubmitDeposit == SubmitDepositOf(Commitments)

ExecDeposit ==
    /\ tx.op = "deposit"
    /\ LET r == deposit(tx.commitment, tx.value) IN
        /\ commitments' = r.commitments
        /\ balance' = r.balance
        /\ currentRootIndex' = r.currentRootIndex
        /\ roots' = r.roots
        /\ filledSubtrees' = r.filledSubtrees
        /\ nextLeafIndex' = r.nextLeafIndex
        /\ leafLog' = IF r.inserted THEN Append(leafLog, tx.commitment) ELSE leafLog
        /\ rootLog' = IF r.inserted THEN Append(rootLog, r.newRoot) ELSE rootLog
        /\ receipt' = [op |-> "deposit", status |-> r.status, payments |-> <<>>,
                       verifierCalled |-> FALSE, emitted |-> r.emitted]
    /\ tx' = NoTx
    /\ UNCHANGED <<lastInsert, sdkVars, nullifierHashes, spendCount, aspVars, extVars>>

SubmitWithdraw ==
    /\ tx = NoTx
    /\ \E a \in WithdrawArgs : \E proof \in ProofChoices(a) :
          tx' = [op |-> "withdraw", proof |-> proof] @@ a
    /\ receipt' = NoReceipt
    /\ UNCHANGED <<treeVars, lastInsert, sdkVars, poolVars, aspVars, extVars>>

ExecWithdraw ==
    /\ tx.op = "withdraw"
    /\ LET r == withdraw(tx) IN
        /\ nullifierHashes' = r.nullifierHashes
        /\ balance' = r.balance
        /\ spendCount' = IF r.status = "ok"
                         THEN [spendCount EXCEPT ![tx.nullifierHash] = @ + 1]
                         ELSE spendCount
        /\ receipt' = [op |-> "withdraw", status |-> r.status, payments |-> r.payments,
                       verifierCalled |-> r.verifierCalled]
    /\ tx' = NoTx
    /\ UNCHANGED <<treeVars, lastInsert, sdkVars, commitments, aspVars, extVars>>

SubmitUpdateASPRoot ==
    /\ tx = NoTx
    /\ tx' = [op |-> "updateASPRoot", newRoot |-> PublishedASPRoot]
    /\ receipt' = NoReceipt
    /\ UNCHANGED <<treeVars, lastInsert, sdkVars, poolVars, aspVars, extVars>>

ExecUpdateASPRoot ==
    /\ tx.op = "updateASPRoot"
    /\ LET r == updateASPRoot(tx.newRoot) IN
        /\ aspCurrentRootIndex' = r.currentRootIndex
        /\ aspRoots' = r.aspRoots
    /\ receipt' = [op |-> "updateASPRoot", status |-> "ok", payments |-> <<>>,
                   verifierCalled |-> FALSE]
    /\ tx' = NoTx
    /\ UNCHANGED <<treeVars, lastInsert, sdkVars, poolVars, extVars>>

\* ------------------------------------------------------------------------
\* The bare tree and its SDK mirror

TreeInit ==
    /\ currentRootIndex = 0
    /\ nextLeafIndex = 0
    /\ roots = InitialRoots
    /\ filledSubtrees = InitialFilledSubtrees
    /\ leafLog = <<>>
    /\ rootLog = <<>>

SdkInit ==
    /\ sdkLeaves = <<>>
    /\ sdkLayers = [l \in 0..TREE_DEPTH |-> <<>>]
    /\ sdkLastInsert = [status |-> "none", index |-> 0]

\* TestMerkleTree.insert(leaf)
TreeInsert(leaf) ==
    LET r == _insert(leaf) IN
    /\ currentRootIndex' = r.currentRootIndex
    /\ nextLeafIndex' = r.nextLeafIndex
    /\ roots' = r.roots
    /\ filledSubtrees' = r.filledSubtrees
    /\ leafLog' = IF r.reverted THEN leafLog ELSE Append(leafLog, leaf)
    /\ rootLog' = IF r.reverted THEN rootLog ELSE Append(rootLog, r.newRoot)
    /\ lastInsert' = [status |-> IF r.reverted THEN "MerkleTreeFull" ELSE "ok",
                      leafIndex |-> r.leafIndex]
    /\ UNCHANGED <<sdkVars, poolVars, aspVars, tx, receipt, extVars>>

\* the client replays the next LeafInserted event into its MerkleTree
SdkInsert ==
    /\ Len(sdkLeaves) < Len(leafLog)
    /\ LET r == sdkInsert(leafLog[Len(sdkLeaves) + 1]) IN
        /\ sdkLeaves' = r.leaves
        /\ sdkLayers' = r.layers
        /\ sdkLastInsert' = [status |-> IF r.thrown THEN "Merkle tree is full" ELSE "ok",
                             index |-> r.index]
    /\ UNCHANGED <<treeVars, lastInsert, poolVars, aspVars, tx, receipt, extVars>>

\* one more insert(leaf) on a client tree that already holds 2^depth leaves
SdkInsertAtCapacity(leaf) ==
    /\ Len(sdkLeaves) >= Pow2(TREE_DEPTH)
    /\ LET r == sdkInsert(leaf) IN
        /\ sdkLeaves' = r.leaves
        /\ sdkLayers' = r.layers
        /\ sdkLastInsert' = [status |-> IF r.thrown THEN "Merkle tree is full" ELSE "ok",
                             index |-> r.index]
    /\ UNCHANGED <<treeVars, lastInsert, poolVars, aspVars, tx, receipt, extVars>>

NoteInit ==
    /\ blockedCommitments = {}
    /\ sponsorshipNullifiers = {}
    /\ sponsorLog = {}
    /\ aspLeaves = <<>>

\* ------------------------------------------------------------------------
\* relayer (compliance coordinator): its state when main() has started it
\* on an empty database, before any Deposit event

MaxEvents == 2          \* Deposit events on the chain
MaxUpdates == 2         \* updateASPRoot calls the relayer makes
MaxPending == 2         \* publishASPRoot calls in flight at once

\* the pools of getPoolConfigs()
Pools == {"bnb", "token"}

\* commitments deposited into the watched pools
CoordCommitments == {<<1>>, <<2>>}

\* let ofacAddresses: Set<string> | null = null (0 is no account's address)
NotLoaded == {0}

\* no row of table deposits has the commitment
NoRow == [screening_status |-> "none", pool_address |-> "none", leaf_index |-> 0,
          block_number |-> 0, screening_flags |-> {}, asp_included |-> FALSE]

CoordInit ==
    /\ chainEvents = <<>>
    /\ oracleUp = TRUE
    /\ ofacAddresses = NotLoaded
    /\ running = TRUE
    /\ dbDeposits = [c \in CoordCommitments |-> NoRow]
    /\ aspTree = <<>>
    /\ queue = <<>>
    /\ processing = {}
    /\ subscribed = TRUE
    /\ pubPending = <<>>
    /\ updateCalls = <<>>

\* ------------------------------------------------------------------------
\* relayer (withdrawal scheduler): configuration and its state at start

RandomSteps == 2        \* Math.random() is one of 0/RandomSteps, 1/RandomSteps, ...
MaxSubmits == 2         \* queueWithdrawal calls in flight at once
MaxTicks == 2           \* processor ticks in flight at once
MaxRequests == 2        \* rows of table withdrawals

\* config.minWithdrawalDelayMs, config.maxWithdrawalDelayMs (in clock units)
minWithdrawalDelay == 1
maxWithdrawalDelay == 3

\* const MAX_CONCURRENT = 3
MAX_CONCURRENT == 3

\* const maxRetries = 3
maxRetries == 3

\* getDueWithdrawals: LIMIT 10
DueLimit == 10

SchedInit ==
    /\ withdrawals = <<>>
    /\ submits = EmptyBag
    /\ ticks = EmptyBag
    /\ submissions = EmptyBag
    /\ activeSubmissions = 0
    /\ processor = [phase |-> "polling", restarted |-> FALSE]

Init ==
    /\ TreeInit
    /\ SdkInit
    /\ PoolInit
    /\ ASPInit
    /\ NoteInit
    /\ CoordInit
    /\ SchedInit
    /\ lastInsert = [status |-> "none", leafIndex |-> 0]
    /\ tx = NoTx
    /\ receipt = NoReceipt

\* the pool, the registry and their transactions
Next ==
    \/ SubmitDeposit
    \/ ExecDeposit
    \/ SubmitWithdraw
    \/ ExecWithdraw
    \/ SubmitUpdateASPRoot
    \/ ExecUpdateASPRoot

Spec == Init /\ [][Next]_vars

InitTree == Init

NextTree ==
    \/ \E leaf \in Leaves : TreeInsert(leaf)
    \/ SdkInsert
    \/ \E leaf \in Leaves : SdkInsertAtCapacity(leaf)

SpecTree == InitTree /\ [][NextTree]_vars

\* the pool fed with deposits only, and a client replaying its events
DepositCommitments == {<<0>>, <<1>>, <<2>>, <<3>>, <<4>>}

InitDeposits == Init

SubmitAnyDeposit == SubmitDepositOf(DepositCommitments)

NextDeposits ==
    \/ SubmitAnyDeposit
    \/ ExecDeposit
    \/ SdkInsert

SpecDeposits == InitDeposits /\ [][NextDeposits]_vars

\* ------------------------------------------------------------------------
\* circuits/lib/merkleTree.circom: MerkleTreeChecker, currentHash[levels]
\* from currentHash[i] = cur
RECURSIVE merkleFold(_, _, _, _)
merkleFold(cur, pathElements, pathIndices, i) ==
    IF i > Len(pathElements) THEN cur
    ELSE merkleFold(IF pathIndices[i] = 0
                    THEN Hash(PoseidonTag, cur, pathElements[i])
                    ELSE Hash(PoseidonTag, pathElements[i], cur),
                    pathElements, pathIndices, i + 1)


\* ------------------------------------------------------------------------
\* circuits: Withdraw and Membership.  pub are the public inputs, priv the
\* private ones; the value is whether every constraint is satisfied.
withdrawCircuit(pub, priv) ==
    LET commitment == poseidonHash2(priv.secret, priv.nullifier) IN
    /\ poseidonHash1(priv.nullifier) = pub.nullifierHash
    /\ merkleFold(commitment, priv.pathElements, priv.pathIndices, 1) = pub.root
    /\ merkleFold(commitment, priv.aspPathElements, priv.aspPathIndices, 1) = pub.aspRoot

membershipCircuit(pub, priv) ==
    LET commitment == poseidonHash2(priv.secret, priv.nullifier) IN
    /\ poseidonHash2(priv.nullifier, DomainSeparator) = pub.nullifierHash
    /\ merkleFold(commitment, priv.pathElements, priv.pathIndices, 1) = pub.root
    /\ merkleFold(commitment, priv.aspPathElements, priv.aspPathIndices, 1) = pub.aspRoot

\* prove: a proof for the public signals when the circuit is satisfied, and
\* otherwise a blob that verifies for no signals at all
prove(satisfied, signals) == IF satisfied THEN Proof(signals) ELSE Proof(<<>>)

\* the path a client is served for a commitment in a list of leaves; the
\* all-zero path when the commitment is not among them
EmptyPath == [pathElements |-> [l \in 1..TREE_DEPTH |-> ZeroBytes32],
              pathIndices |-> [l \in 1..TREE_DEPTH |-> 0]]

pathOf(leaves, commitment) ==
    LET p == aspGetProof(PoseidonTag, leaves, aspIndexOf(leaves, commitment))
    IN  IF p.isNull THEN EmptyPath
        ELSE [pathElements |-> p.pathElements, pathIndices |-> p.pathIndices]

\* the private inputs of a note against the first k pool leaves and the
\* first j approved leaves
notePrivateInputs(note, k, j) ==
    LET pp == pathOf(SubSeq(leafLog, 1, k), noteCommitment(note))
        ap == pathOf(SubSeq(aspLeaves, 1, j), noteCommitment(note))
    IN  [secret |-> note.secret, nullifier |-> note.nullifier,
         pathElements |-> pp.pathElements, pathIndices |-> pp.pathIndices,
         aspPathElements |-> ap.pathElements, aspPathIndices |-> ap.pathIndices]

\* ------------------------------------------------------------------------
\* ASPRegistry.sol: blocking

blockCommitment(commitment) == blockedCommitments \cup {commitment}

\* unblockCommitment(commitment): reverts unless the commitment is blocked
unblockCommitment(commitment) ==
    IF commitment \notin blockedCommitments
    THEN [status |-> "CommitmentNotBlocked", blockedCommitments |-> blockedCommitments]
    ELSE [status |-> "ok", blockedCommitments |-> blockedCommitments \ {commitment}]

\* ------------------------------------------------------------------------
\* MembershipVerifier.sol and PrivacyPaymaster.sol

\* MembershipVerifier.verifyProof: "revert", or the verifier's answer
membershipVerifyProof(proof, pubSignals) ==
    IF Len(pubSignals) # 3 THEN "revert"
    ELSE IF groth16VerifyProof(proof, pubSignals) THEN "true" ELSE "false"

\* the length of paymasterAndData[52:] that holds proof, root, nullifier hash
\* and ASP root
PaymasterDataLength == 352

\* _validatePaymasterUserOp: pubSignals
membershipPubSignalsRootTwice(u) == << u.merkleRoot, u.nullifierHash, u.merkleRoot >>

membershipPubSignals(u) == << u.merkleRoot, u.nullifierHash, u.aspRoot >>

\* _validatePaymasterUserOp: the guards before the proof is verified
validateGatesNullifierLast(u) ==
    IF u.maxCost > maxGasSponsorship THEN "GasCostExceedsMax"
    ELSE IF u.dataLength < PaymasterDataLength THEN "InvalidPaymasterDataLength"
    ELSE IF ~isKnownRoot(u.merkleRoot) THEN "InvalidMerkleRoot"
    ELSE IF ~isKnownASPRoot(u.aspRoot) THEN "Invalid ASP root"
    ELSE IF u.nullifierHash \in sponsorshipNullifiers THEN "NullifierAlreadyUsed"
    ELSE "pass"

validateGates(u) ==
    IF u.maxCost > maxGasSponsorship THEN "GasCostExceedsMax"
    ELSE IF u.dataLength < PaymasterDataLength THEN "InvalidPaymasterDataLength"
    ELSE IF u.nullifierHash \in sponsorshipNullifiers THEN "NullifierAlreadyUsed"
    ELSE IF ~isKnownRoot(u.merkleRoot) THEN "InvalidMerkleRoot"
    ELSE IF ~isKnownASPRoot(u.aspRoot) THEN "Invalid ASP root"
    ELSE "pass"

\* sponsorshipNullifiers[nullifierHash] = true
markUsedInPool(nullifierHash) ==
    [sponsorshipNullifiers |-> sponsorshipNullifiers,
     nullifierHashes |-> nullifierHashes \cup {nullifierHash}]

markUsed(nullifierHash) ==
    [sponsorshipNullifiers |-> sponsorshipNullifiers \cup {nullifierHash},
     nullifierHashes |-> nullifierHashes]

\* _validatePaymasterUserOp(userOp, userOpHash, maxCost): status, the two
\* nullifier mappings after the call, and whether the verifier ran
validatePaymasterUserOp(u) ==
    LET g == validateGates(u)
        same == [sponsorshipNullifiers |-> sponsorshipNullifiers,
                 nullifierHashes |-> nullifierHashes]
        v == membershipVerifyProof(u.proof, membershipPubSignals(u))
    IN  IF g # "pass" THEN [status |-> g, verifierCalled |-> FALSE] @@ same
        ELSE IF v = "revert" THEN [status |-> "VerifierReverted", verifierCalled |-> TRUE] @@ same
        ELSE IF v = "false"
        THEN [status |-> "InvalidMembershipProof", verifierCalled |-> TRUE] @@ same
        ELSE [status |-> "ok", verifierCalled |-> TRUE] @@ markUsed(u.nullifierHash)

\* ------------------------------------------------------------------------
\* Notes in use: deposits of note commitments, the operator approving and
\* blocking them, and withdrawals and sponsored operations made from notes

NoteCommitments == {noteCommitment(n) : n \in Notes}

\* the pool root after the first k insertions
poolRootAt(k) == IF k = 0 THEN zeros(TREE_DEPTH) ELSE rootLog[k]

\* the nullifier hash a client reveals: the one of the operation's own
\* domain, or the one of the other domain
NullifierDomains == {"withdraw", "sponsor"}

revealed(note, domain) ==
    IF domain = "withdraw" THEN noteNullifierHash(note)
    ELSE noteSponsorshipNullifierHash(note)

SubmitNoteDeposit == SubmitDepositOf(NoteCommitments)

\* the operator approves a deposited commitment: ASP tree insert, then
\* updateASPRoot with the tree's root
SubmitApprove ==
    /\ tx = NoTx
    /\ \E c \in commitments :
          /\ \A i \in 1..Len(aspLeaves) : aspLeaves[i] # c
          /\ aspLeaves' = Append(aspLeaves, c)
          /\ tx' = [op |-> "updateASPRoot", newRoot |-> aspRoot(PoseidonTag, Append(aspLeaves, c))]
    /\ receipt' = NoReceipt
    /\ UNCHANGED <<treeVars, lastInsert, sdkVars, poolVars, aspVars, blockedCommitments,
                   sponsorshipNullifiers, sponsorLog, coordVars, schedVars>>

\* the registry owner blocks a deposited commitment
BlockCommitment ==
    /\ tx = NoTx
    /\ \E c \in commitments : blockedCommitments' = blockCommitment(c)
    /\ receipt' = [op |-> "blockCommitment", status |-> "ok", payments |-> <<>>,
                   verifierCalled |-> FALSE]
    /\ UNCHANGED <<treeVars, lastInsert, sdkVars, poolVars, aspVars, tx,
                   sponsorshipNullifiers, sponsorLog, aspLeaves, coordVars, schedVars>>

UnblockCommitment ==
    /\ tx = NoTx
    /\ \E c \in commitments :
          LET r == unblockCommitment(c) IN
          /\ blockedCommitments' = r.blockedCommitments
          /\ receipt' = [op |-> "unblockCommitment", status |-> r.status, payments |-> <<>>,
                         verifierCalled |-> FALSE]
    /\ UNCHANGED <<treeVars, lastInsert, sdkVars, poolVars, aspVars, tx,
                   sponsorshipNullifiers, sponsorLog, aspLeaves, coordVars, schedVars>>

\* a client withdraws a note to Alice through relayer Bob with fee 1, against
\* the pool root after k insertions and the ASP root of the first j approvals
SubmitNoteWithdraw ==
    /\ tx = NoTx
    /\ \E note \in Notes, k \in {0, Len(leafLog)}, j \in {0, Len(aspLeaves)},
          domain \in NullifierDomains :
          LET a == [root |-> poolRootAt(k), nullifierHash |-> revealed(note, domain),
                    recipient |-> Alice, relayer |-> Bob, fee |-> 1, refund |-> 0,
                    aspRoot |-> aspRoot(PoseidonTag, SubSeq(aspLeaves, 1, j))]
              ok == withdrawCircuit(a, notePrivateInputs(note, k, j))
          IN  tx' = [op |-> "withdraw", proof |-> prove(ok, Statement(a)),
                     commitment |-> noteCommitment(note)] @@ a
    /\ receipt' = NoReceipt
    /\ UNCHANGED <<treeVars, lastInsert, sdkVars, poolVars, aspVars, extVars>>

\* maxCost and paymaster data length of the operations offered: within the
\* cap and complete, above the cap, and cut short before the ASP root
UserOpShapes ==
    { <<maxGasSponsorship, PaymasterDataLength>>,
      <<maxGasSponsorship + 1, PaymasterDataLength>>,
      <<maxGasSponsorship, PaymasterDataLength - 32>> }

\* a client asks the paymaster to sponsor an operation with a note
SubmitUserOp ==
    /\ tx = NoTx
    /\ \E note \in Notes, k \in {0, Len(leafLog)}, j \in {0, Len(aspLeaves)},
          shape \in UserOpShapes, domain \in NullifierDomains :
          LET maxCost == shape[1]
              dataLength == shape[2]
              u == [merkleRoot |-> poolRootAt(k), nullifierHash |-> revealed(note, domain),
                    aspRoot |-> aspRoot(PoseidonTag, SubSeq(aspLeaves, 1, j))]
              pub == [root |-> u.merkleRoot, nullifierHash |-> u.nullifierHash,
                      aspRoot |-> u.aspRoot]
              ok == membershipCircuit(pub, notePrivateInputs(note, k, j))
          IN  tx' = [op |-> "userOp", maxCost |-> maxCost, dataLength |-> dataLength,
                     proof |-> prove(ok, membershipPubSignals(u)), note |-> note] @@ u
    /\ receipt' = NoReceipt
    /\ UNCHANGED <<treeVars, lastInsert, sdkVars, poolVars, aspVars, extVars>>

\* the EntryPoint validates the pending operation with the paymaster
ExecValidate ==
    /\ tx.op = "userOp"
    /\ LET r == validatePaymasterUserOp(tx) IN
        /\ sponsorshipNullifiers' = r.sponsorshipNullifiers
        /\ nullifierHashes' = r.nullifierHashes
        /\ sponsorLog' = IF r.status = "ok"
                         THEN sponsorLog \cup
                              {[hash |-> tx.nullifierHash,
                                afterWithdraw |-> noteNullifierHash(tx.note) \in nullifierHashes]}
                         ELSE sponsorLog
        /\ receipt' = [op |-> "userOp", status |-> r.status, payments |-> <<>>,
                       verifierCalled |-> r.verifierCalled]
    /\ tx' = NoTx
    /\ UNCHANGED <<treeVars, lastInsert, sdkVars, commitments, balance, spendCount, aspVars,
                   blockedCommitments, aspLeaves, coordVars, schedVars>>

InitNotes == Init

NextNotes ==
    \/ SubmitNoteDeposit
    \/ ExecDeposit
    \/ SubmitApprove
    \/ ExecUpdateASPRoot
    \/ BlockCommitment
    \/ UnblockCommitment
    \/ SubmitNoteWithdraw
    \/ ExecWithdraw
    \/ SubmitUserOp
    \/ ExecValidate

SpecNotes == InitNotes /\ [][NextNotes]_vars

\* ------------------------------------------------------------------------
\* relayer: screening.service.ts

\* the addresses the Chainalysis oracle reports as sanctioned
OracleSanctioned == {Bob}

\* what config.ofacListPath may hold: no file (or no address), or Bob
OfacFiles == {{}, {Bob}}

\* the senders of the deposit transactions (resolveDepositor)
Depositors == {Alice, Bob}

\* loadOfacList(): the cached set, read from the file on first use
loadOfacList(file) == IF ofacAddresses # NotLoaded THEN ofacAddresses ELSE file

\* checkChainalysis(address): rethrows when the oracle call fails
checkChainalysis(address) ==
    IF oracleUp THEN [threw |-> FALSE, sanctioned |-> address \in OracleSanctioned]
    ELSE [threw |-> TRUE, sanctioned |-> FALSE]

\* checkLocalOfac(address)
checkLocalOfac(address, file) == address \in loadOfacList(file)

\* checkAddress(address) for a well-formed address (tx.from); riskScore in
\* tenths.  No path of it throws: the oracle's failure is caught.
checkAddress(address, file) ==
    LET o == checkChainalysis(address)
        oracleReachable == ~o.threw
        flags == IF oracleReachable THEN {} ELSE {"chainalysis_oracle_unreachable"}
    IN  IF oracleReachable /\ o.sanctioned
        THEN [threw |-> FALSE, approved |-> FALSE, riskScore |-> 10,
              flags |-> {"chainalysis_sanctioned"}, ofacAddresses |-> ofacAddresses]
        ELSE IF checkLocalOfac(address, file)
        THEN [threw |-> FALSE, approved |-> FALSE, riskScore |-> 10,
              flags |-> flags \cup {"ofac_sdn_match"},
              ofacAddresses |-> loadOfacList(file)]
        ELSE [threw |-> FALSE, approved |-> TRUE,
              riskScore |-> IF oracleReachable THEN 0 ELSE 5,
              flags |-> IF oracleReachable THEN flags
                        ELSE flags \cup {"oracle_fallback_only"},
              ofacAddresses |-> loadOfacList(file)]

\* ------------------------------------------------------------------------
\* relayer: asp.service.ts, depositWatcher.ts, aspUpdater.ts, index.ts

\* the pool's leafIndex of the event in block b
leafIndexOf(b) ==
    Cardinality({k \in 1..(b - 1) : chainEvents[k].pool = chainEvents[b].pool})

\* processDeposit up to its await of checkAddress: the INSERT ... ON
\* CONFLICT (commitment) DO NOTHING, with the column defaults
processDepositInsert(e, b) ==
    IF dbDeposits[e.commitment].screening_status # "none" THEN dbDeposits
    ELSE [dbDeposits EXCEPT ![e.commitment] =
             [screening_status |-> "pending", pool_address |-> e.pool,
              leaf_index |-> leafIndexOf(b), block_number |-> b,
              screening_flags |-> {}, asp_included |-> FALSE]]

\* processDeposit from the outcome r of checkAddress on
processDepositScreened(e, r) ==
    LET c == e.commitment IN
    IF r.threw
    THEN [dbDeposits |-> [dbDeposits EXCEPT ![c].screening_status = "pending"],
          aspTree |-> aspTree, blockedCommitments |-> blockedCommitments]
    ELSE IF r.approved
    THEN [dbDeposits |-> [dbDeposits EXCEPT ![c].screening_status = "approved",
                                            ![c].screening_flags = r.flags,
                                            ![c].asp_included = TRUE],
          aspTree |-> Append(aspTree, c), blockedCommitments |-> blockedCommitments]
    ELSE [dbDeposits |-> [dbDeposits EXCEPT ![c].screening_status = "blocked",
                                            ![c].screening_flags = r.flags],
          aspTree |-> aspTree, blockedCommitments |-> blockCommitment(c)]

\* getLastProcessedBlock(poolAddress): MAX(block_number), 0 without rows
getLastProcessedBlock(pool) ==
    LET blocks == {dbDeposits[c].block_number :
                      c \in {x \in CoordCommitments : dbDeposits[x].pool_address = pool}}
    IN  IF blocks = {} THEN 0
        ELSE CHOOSE m \in blocks : \A k \in blocks : k <= m

\* the blocks with a Deposit event of the pool that startDepositWatcher hands
\* to processHistoricalDeposits (currentBlock is below 10000)
syncBlocks(pool) ==
    LET lastBlock == getLastProcessedBlock(pool)
        currentBlock == Len(chainEvents)
        startBlock == IF lastBlock > 0 THEN lastBlock + 1 ELSE 0
    IN  IF lastBlock < currentBlock
        THEN {b \in 1..currentBlock : chainEvents[b].pool = pool /\ startBlock <= b}
        ELSE {}

\* a set of blocks in ascending order
RECURSIVE ascending(_)
ascending(blocks) ==
    IF blocks = {} THEN <<>>
    ELSE LET m == CHOOSE x \in blocks : \A k \in blocks : x <= k
         IN  <<m>> \o ascending(blocks \ {m})

\* rebuildASPTreeFromDB(): the rows with asp_included, ORDER BY leaf_index
\* (rows of different pools with equal leaf_index come in either order)
rebuildASPTreeFromDB ==
    LET included == {c \in CoordCommitments : dbDeposits[c].asp_included}
        n == Cardinality(included)
    IN  {t \in [1..n -> included] :
            /\ \A i, j \in 1..n : t[i] = t[j] => i = j
            /\ \A i, j \in 1..n :
                  i < j => dbDeposits[t[i]].leaf_index <= dbDeposits[t[j]].leaf_index}

\* a pool emits Deposit (a pool rejects a commitment it already holds); the
\* listener of a running relayer is called with it once it is attached
DepositEvent ==
    /\ Len(chainEvents) < MaxEvents
    /\ \E pool \in Pools, c \in CoordCommitments, d \in Depositors :
          /\ \A b \in 1..Len(chainEvents) :
                ~(chainEvents[b].pool = pool /\ chainEvents[b].commitment = c)
          /\ chainEvents' = Append(chainEvents,
                                   [pool |-> pool, commitment |-> c, depositor |-> d])
    /\ queue' = IF running /\ subscribed THEN Append(queue, Len(chainEvents) + 1) ELSE queue
    /\ UNCHANGED <<schedVars, treeVars, lastInsert, sdkVars, poolVars, aspVars, tx, receipt, noteVars,
                   oracleUp, ofacAddresses, running, dbDeposits, aspTree, processing,
                   subscribed, pubPending, updateCalls>>

\* the watcher calls processDeposit for the next event; the call runs to its
\* await of checkAddress.  The historical sync awaits each call before the
\* next, the listener's calls overlap.
ProcessDepositBegin ==
    /\ running
    /\ subscribed \/ processing = {}
    /\ queue # <<>>
    /\ dbDeposits' = processDepositInsert(chainEvents[Head(queue)], Head(queue))
    /\ processing' = processing \cup {Head(queue)}
    /\ queue' = Tail(queue)
    /\ UNCHANGED <<schedVars, treeVars, lastInsert, sdkVars, poolVars, aspVars, tx, receipt, noteVars,
                   chainEvents, oracleUp, ofacAddresses, running, aspTree, subscribed,
                   pubPending, updateCalls>>

\* checkAddress settles for the call of block b and processDeposit runs to
\* its end; after the last historical call the listener is attached
ProcessDepositScreenOf(b) ==
    /\ running
    /\ b \in processing
    /\ \E file \in OfacFiles :
          LET e == chainEvents[b]
              s == checkAddress(e.depositor, file)
              r == processDepositScreened(e, s)
          IN  /\ ofacAddresses' = s.ofacAddresses
              /\ dbDeposits' = r.dbDeposits
              /\ aspTree' = r.aspTree
              /\ blockedCommitments' = r.blockedCommitments
    /\ processing' = processing \ {b}
    /\ subscribed' = (subscribed \/ queue = <<>>)
    /\ UNCHANGED <<schedVars, treeVars, lastInsert, sdkVars, poolVars, aspVars, tx, receipt,
                   sponsorshipNullifiers, sponsorLog, aspLeaves,
                   chainEvents, oracleUp, running, queue, pubPending, updateCalls>>

ProcessDepositScreen == \E b \in processing : ProcessDepositScreenOf(b)

\* the oracle's RPC endpoint stops answering, and answers again
OracleFails ==
    /\ oracleUp
    /\ oracleUp' = FALSE
    /\ UNCHANGED <<schedVars, treeVars, lastInsert, sdkVars, poolVars, aspVars, tx, receipt, noteVars,
                   chainEvents, ofacAddresses, running, dbDeposits, aspTree, queue,
                   processing, subscribed, pubPending, updateCalls>>

OracleRecovers ==
    /\ ~oracleUp
    /\ oracleUp' = TRUE
    /\ UNCHANGED <<schedVars, treeVars, lastInsert, sdkVars, poolVars, aspVars, tx, receipt, noteVars,
                   chainEvents, ofacAddresses, running, dbDeposits, aspTree, queue,
                   processing, subscribed, pubPending, updateCalls>>

\* index.ts shutdown(signal): workers stopped, process.exit(0); what the
\* process held in memory and its calls in flight are gone (aspTree keeps
\* the leaves the stopped process had until main() builds the tree anew)
Shutdown ==
    /\ running
    /\ running' = FALSE
    /\ ofacAddresses' = NotLoaded
    /\ aspTree' = aspTree
    /\ queue' = <<>>
    /\ processing' = {}
    /\ subscribed' = FALSE
    /\ pubPending' = <<>>
    /\ UNCHANGED <<schedVars, treeVars, lastInsert, sdkVars, poolVars, aspVars, tx, receipt, noteVars,
                   chainEvents, oracleUp, dbDeposits, updateCalls>>

\* index.ts main(): rebuildASPTreeFromDB, then startDepositWatcher's
\* historical sync of every pool, bnb first
Start ==
    /\ ~running
    /\ running' = TRUE
    /\ aspTree' \in rebuildASPTreeFromDB
    /\ queue' = ascending(syncBlocks("bnb")) \o ascending(syncBlocks("token"))
    /\ subscribed' = (syncBlocks("bnb") \cup syncBlocks("token") = {})
    /\ UNCHANGED <<schedVars, treeVars, lastInsert, sdkVars, poolVars, aspVars, tx, receipt, noteVars,
                   chainEvents, oracleUp, ofacAddresses, dbDeposits, processing,
                   pubPending, updateCalls>>

\* aspUpdater tick() and publishASPRoot() up to its send: skipped on an
\* empty tree and on a root the registry answers it knows; a failed
\* isKnownASPRoot call is logged and the publish goes on
PublishBegin ==
    /\ running
    /\ Len(aspTree) # 0
    /\ Len(pubPending) < MaxPending
    /\ LET newRoot == aspRoot(KeccakTag, aspTree) IN
        /\ newRoot # ZeroBytes32
        /\ \E checkThrows \in BOOLEAN :
              pubPending' = IF ~checkThrows /\ isKnownASPRoot(newRoot) THEN pubPending
                            ELSE Append(pubPending, newRoot)
    /\ UNCHANGED <<schedVars, treeVars, lastInsert, sdkVars, poolVars, aspVars, tx, receipt, noteVars,
                   chainEvents, oracleUp, ofacAddresses, running, dbDeposits, aspTree,
                   queue, processing, subscribed, updateCalls>>

\* publishASPRoot() from registry.updateASPRoot(newRoot) on: the owner's
\* transaction is executed by the registry
PublishSubmit ==
    /\ running
    /\ pubPending # <<>>
    /\ Len(updateCalls) < MaxUpdates
    /\ LET r == updateASPRoot(Head(pubPending)) IN
        /\ aspCurrentRootIndex' = r.currentRootIndex
        /\ aspRoots' = r.aspRoots
    /\ updateCalls' = Append(updateCalls, Head(pubPending))
    /\ pubPending' = Tail(pubPending)
    /\ UNCHANGED <<schedVars, treeVars, lastInsert, sdkVars, poolVars, tx, receipt, noteVars,
                   chainEvents, oracleUp, ofacAddresses, running, dbDeposits, aspTree,
                   queue, processing, subscribed>>

InitCoordinator == Init

NextCoordinator ==
    \/ DepositEvent
    \/ ProcessDepositBegin
    \/ ProcessDepositScreen
    \/ OracleFails
    \/ OracleRecovers
    \/ Shutdown
    \/ Start
    \/ PublishBegin
    \/ PublishSubmit

SpecCoordinator == InitCoordinator /\ [][NextCoordinator]_vars

\* the deposit watcher alone: publishing is an independent cadence
NextWatcher ==
    \/ DepositEvent
    \/ ProcessDepositBegin
    \/ ProcessDepositScreen
    \/ OracleFails
    \/ OracleRecovers
    \/ Shutdown
    \/ Start

\* the event loop runs every callback that is ready, and a stopped relayer
\* is started again; deposits, outages and shutdowns are the environment's
FairWatcher ==
    /\ WF_vars(ProcessDepositBegin)
    /\ WF_vars(ProcessDepositScreen)
    /\ WF_vars(Start)

SpecWatcherFair == InitCoordinator /\ [][NextWatcher]_vars /\ FairWatcher

\* ------------------------------------------------------------------------
\* relayer: services/relayer.service.ts, workers/withdrawalProcessor.ts

\* everything but the scheduler's state and the pool's nullifierHashes
nonSchedVars == <<treeVars, lastInsert, sdkVars, commitments, balance, spendCount,
                  aspVars, tx, receipt, noteVars, coordVars>>

\* the bodies of POST /api/withdraw: the nullifier hash, whether the fields
\* are well formed, and whether the pool accepts the proof with its roots
Requests ==
    {[nullifierHash |-> <<7>>, wellFormed |-> TRUE, proofValid |-> TRUE],
     [nullifierHash |-> <<7>>, wellFormed |-> TRUE, proofValid |-> FALSE],
     [nullifierHash |-> <<7>>, wellFormed |-> FALSE, proofValid |-> TRUE]}

TerminalStatuses == {"confirmed", "failed", "rejected"}

\* the ids of the rows with the nullifier hash and a status outside excluded
rowsOf(nullifierHash, excluded) ==
    {id \in 1..Len(withdrawals) :
        /\ withdrawals[id].nullifier_hash = nullifierHash
        /\ withdrawals[id].status \notin excluded}

\* validateWithdrawRequest(req): the reason, or "valid"
validateWithdrawRequest(req) ==
    IF ~req.wellFormed THEN "Invalid field"
    ELSE IF req.nullifierHash \in nullifierHashes THEN "Nullifier already spent"
    ELSE IF rowsOf(req.nullifierHash, {"failed", "rejected"}) # {}
    THEN "Withdrawal already queued"
    ELSE "valid"

\* Date.now() and the database's NOW(): times are kept relative to the
\* present, and a scheduled_at that has passed stays at the present
now == 0

\* the values k / RandomSteps of Math.random()
RandomDraws == 0..(RandomSteps - 1)

computeJitterMsNoMin(k) ==
    (k * (maxWithdrawalDelay - minWithdrawalDelay)) \div RandomSteps

\* computeJitterMs() when Math.random() is k / RandomSteps
computeJitterMs(k) ==
    minWithdrawalDelay + ((k * (maxWithdrawalDelay - minWithdrawalDelay)) \div RandomSteps)

insertWithdrawalNotUnique(req, scheduledAt) ==
    [threw |-> FALSE,
     withdrawals |-> Append(withdrawals,
                            [nullifier_hash |-> req.nullifierHash, status |-> "queued",
                             retry_count |-> 0, scheduled_at |-> scheduledAt,
                             proofValid |-> req.proofValid])]

\* INSERT INTO withdrawals ... 'queued': nullifier_hash is UNIQUE
insertWithdrawal(req, scheduledAt) ==
    IF rowsOf(req.nullifierHash, {}) # {}
    THEN [threw |-> TRUE, withdrawals |-> withdrawals]
    ELSE [threw |-> FALSE,
          withdrawals |-> Append(withdrawals,
                                 [nullifier_hash |-> req.nullifierHash, status |-> "queued",
                                  retry_count |-> 0, scheduled_at |-> scheduledAt,
                                  proofValid |-> req.proofValid])]

\* getDueWithdrawals(): the answers the SELECT may give (rows with equal
\* scheduled_at come in either order)
getDueWithdrawals ==
    LET due == {id \in 1..Len(withdrawals) :
                   withdrawals[id].status = "queued" /\ withdrawals[id].scheduled_at <= now}
        n == Cardinality(due)
        sorted == {d \in [1..n -> due] :
                      /\ \A i, j \in 1..n : d[i] = d[j] => i = j
                      /\ \A i, j \in 1..n :
                            i < j => withdrawals[d[i]].scheduled_at
                                        <= withdrawals[d[j]].scheduled_at}
    IN  {SubSeq(d, 1, IF n < DueLimit THEN n ELSE DueLimit) : d \in sorted}

\* Array.prototype.slice(0, end)
slice0(arr, end) ==
    LET e == IF end < 0 THEN (IF Len(arr) + end < 0 THEN 0 ELSE Len(arr) + end)
             ELSE IF end > Len(arr) THEN Len(arr) ELSE end
    IN  SubSeq(arr, 1, e)

toProcessUncapped(dueIds) == dueIds

\* tick(): dueIds.slice(0, MAX_CONCURRENT - activeSubmissions)
toProcess(dueIds) == slice0(dueIds, MAX_CONCURRENT - activeSubmissions)

\* the submitWithdrawal calls that processOne starts for the ids
RECURSIVE started(_)
started(ids) ==
    IF ids = <<>> THEN EmptyBag
    ELSE SetToBag({[id |-> Head(ids), pc |-> "select", retry_count |-> 0,
                    error |-> "none"]}) (+) started(Tail(ids))

\* the catch block of submitWithdrawal, for the row w read at the start
catchRetry(id, retryCount, k) ==
    LET newRetryCount == retryCount + 1 IN
    IF newRetryCount >= maxRetries
    THEN [withdrawals EXCEPT ![id].status = "failed", ![id].retry_count = newRetryCount]
    ELSE [withdrawals EXCEPT ![id].status = "queued", ![id].retry_count = newRetryCount,
                             ![id].scheduled_at = now + computeJitterMs(k)]

\* time passes
Advance ==
    /\ withdrawals' = [id \in 1..Len(withdrawals) |->
                          [withdrawals[id] EXCEPT !.scheduled_at =
                              IF @ > now THEN @ - 1 ELSE @]]
    /\ UNCHANGED <<nonSchedVars, processor, nullifierHashes, submits, ticks, submissions,
                   activeSubmissions>>

\* queueWithdrawal(req) up to its INSERT: a request that passes
\* validateWithdrawRequest goes on, another one is answered with the reason
QueueValidate ==
    /\ BagCardinality(submits) < MaxSubmits
    /\ \E req \in Requests :
          submits' = IF validateWithdrawRequest(req) = "valid"
                     THEN submits (+) SetToBag({req}) ELSE submits
    /\ UNCHANGED <<nonSchedVars, processor, nullifierHashes, withdrawals, ticks, submissions,
                   activeSubmissions>>

\* queueWithdrawal(req) from computeJitterMs() on: the INSERT, which throws
\* on a nullifier hash the table holds
QueueInsert ==
    /\ Len(withdrawals) < MaxRequests
    /\ \E req \in BagToSet(submits), k \in RandomDraws :
          /\ withdrawals' = insertWithdrawal(req, now + computeJitterMs(k)).withdrawals
          /\ submits' = submits (-) SetToBag({req})
    /\ UNCHANGED <<nonSchedVars, processor, nullifierHashes, ticks, submissions, activeSubmissions>>

\* tick() up to the answer of getDueWithdrawals(); it returns at capacity
\* and on an empty answer
TickQuery ==
    /\ processor.phase = "polling"
    /\ activeSubmissions < MAX_CONCURRENT
    /\ BagCardinality(ticks) < MaxTicks
    /\ \E dueIds \in getDueWithdrawals :
          /\ dueIds # <<>>
          /\ ticks' = ticks (+) SetToBag({dueIds})
    /\ UNCHANGED <<nonSchedVars, processor, nullifierHashes, withdrawals, submits, submissions,
                   activeSubmissions>>

\* tick() from the answer on: processOne for the ids that fit the free
\* slots, each one counted before its first await
TickStart ==
    /\ \E dueIds \in BagToSet(ticks) :
          /\ ticks' = ticks (-) SetToBag({dueIds})
          /\ submissions' = submissions (+) started(toProcess(dueIds))
          /\ activeSubmissions' = activeSubmissions + Len(toProcess(dueIds))
    /\ UNCHANGED <<nonSchedVars, processor, nullifierHashes, withdrawals, submits>>

\* submitWithdrawal(id): the SELECT of a queued or processing row and the
\* UPDATE to 'processing'; without such a row it throws and processOne ends
SubmissionSelect ==
    /\ \E sub \in BagToSet(submissions) :
          /\ sub.pc = "select"
          /\ IF withdrawals[sub.id].status \in {"queued", "processing"}
             THEN /\ withdrawals' = [withdrawals EXCEPT ![sub.id].status = "processing"]
                  /\ submissions' = (submissions (-) SetToBag({sub}))
                        (+) SetToBag({[sub EXCEPT !.pc = "send",
                                           !.retry_count = withdrawals[sub.id].retry_count]})
                  /\ activeSubmissions' = activeSubmissions
             ELSE /\ withdrawals' = withdrawals
                  /\ submissions' = submissions (-) SetToBag({sub})
                  /\ activeSubmissions' = activeSubmissions - 1
    /\ UNCHANGED <<nonSchedVars, processor, nullifierHashes, submits, ticks>>

\* submitWithdrawal: the nullifierHashes check ('rejected' and a throw when
\* spent), then pool.withdraw: the send throws when the RPC call fails or
\* the gas estimate reverts, else the transaction is out and the row
\* 'submitted'
SubmissionSend ==
    /\ \E sub \in BagToSet(submissions), callFails \in BOOLEAN :
          /\ sub.pc = "send"
          /\ LET w == withdrawals[sub.id]
                 error == IF w.nullifier_hash \in nullifierHashes THEN "spent"
                          ELSE IF callFails THEN "transient"
                          ELSE IF ~w.proofValid THEN "revert"
                          ELSE "none"
             IN  /\ withdrawals' =
                       [withdrawals EXCEPT ![sub.id].status =
                           IF error = "spent" THEN "rejected"
                           ELSE IF error = "none" THEN "submitted"
                           ELSE @]
                 /\ submissions' = (submissions (-) SetToBag({sub}))
                       (+) SetToBag({[sub EXCEPT !.pc = IF error = "none" THEN "wait"
                                                        ELSE "catch",
                                                 !.error = error]})
    /\ UNCHANGED <<nonSchedVars, processor, nullifierHashes, submits, ticks, activeSubmissions>>

\* the transaction is mined and tx.wait() settles: the pool's withdraw marks
\* the nullifier and the row is 'confirmed', or it reverts on a nullifier
\* spent meanwhile and tx.wait() throws
SubmissionMined ==
    /\ \E sub \in BagToSet(submissions) :
          /\ sub.pc = "wait"
          /\ IF withdrawals[sub.id].nullifier_hash \in nullifierHashes
             THEN /\ submissions' = (submissions (-) SetToBag({sub}))
                        (+) SetToBag({[sub EXCEPT !.pc = "catch", !.error = "revert"]})
                  /\ UNCHANGED <<nullifierHashes, withdrawals, activeSubmissions>>
             ELSE /\ nullifierHashes' = markSpent(withdrawals[sub.id].nullifier_hash)
                  /\ withdrawals' = [withdrawals EXCEPT ![sub.id].status = "confirmed"]
                  /\ submissions' = submissions (-) SetToBag({sub})
                  /\ activeSubmissions' = activeSubmissions - 1
    /\ UNCHANGED <<nonSchedVars, processor, submits, ticks>>

\* submitWithdrawal's catch block, then processOne's finally
SubmissionCatch ==
    /\ \E sub \in BagToSet(submissions), k \in RandomDraws :
          /\ sub.pc = "catch"
          /\ withdrawals' = catchRetry(sub.id, sub.retry_count, k)
          /\ submissions' = submissions (-) SetToBag({sub})
    /\ activeSubmissions' = activeSubmissions - 1
    /\ UNCHANGED <<nonSchedVars, processor, nullifierHashes, submits, ticks>>

\* the owner of a note withdraws from the pool without the relayer
DirectWithdraw ==
    /\ \E req \in Requests, n \in NullifierValues :
          /\ req.proofValid /\ n = req.nullifierHash
          /\ n \notin nullifierHashes
          /\ nullifierHashes' = markSpent(n)
    /\ UNCHANGED <<nonSchedVars, schedVars>>

InitScheduler == Init

NextScheduler ==
    \/ Advance
    \/ QueueValidate
    \/ QueueInsert
    \/ TickQuery
    \/ TickStart
    \/ SubmissionSelect
    \/ SubmissionSend
    \/ SubmissionMined
    \/ SubmissionCatch
    \/ DirectWithdraw

SpecScheduler == InitScheduler /\ [][NextScheduler]_vars

\* ------------------------------------------------------------------------
\* withdrawalProcessor.ts from the start of the process: startWithdrawalProcessor
\* awaits its first tick() before it installs the interval

MaxStuck == 1

\* the rows a previous run of the relayer left queued after maxRetries - 1
\* failed attempts each, the second one due now or one step ahead
PersistedTables ==
    {<<[nullifier_hash |-> <<7>>, status |-> "queued", retry_count |-> maxRetries - 1,
        scheduled_at |-> now, proofValid |-> TRUE],
       [nullifier_hash |-> <<8>>, status |-> "queued", retry_count |-> maxRetries - 1,
        scheduled_at |-> s, proofValid |-> TRUE]>> : s \in now..(now + 1)}

\* the submissions whose transaction never settles
stuck == {sub \in BagToSet(submissions) : sub.pc = "hung"}

\* startWithdrawalProcessor(): await tick(), up to the answer of
\* getDueWithdrawals(); on an empty answer tick() returns and the interval
\* is installed
FirstTick ==
    /\ processor.phase = "starting"
    /\ \E dueIds \in getDueWithdrawals :
          IF dueIds = <<>>
          THEN /\ processor' = [processor EXCEPT !.phase = "polling"]
               /\ ticks' = ticks
          ELSE /\ processor' = [processor EXCEPT !.phase = "firstTick"]
               /\ ticks' = ticks (+) SetToBag({dueIds})
    /\ UNCHANGED <<nonSchedVars, nullifierHashes, withdrawals, submits, submissions,
                   activeSubmissions>>

\* Promise.allSettled of the first tick() settles once each of its
\* processOne calls has ended; then setInterval installs the polling
FirstTickSettled ==
    /\ processor.phase = "firstTick"
    /\ ticks = EmptyBag /\ submissions = EmptyBag
    /\ processor' = [processor EXCEPT !.phase = "polling"]
    /\ UNCHANGED <<nonSchedVars, nullifierHashes, withdrawals, submits, ticks, submissions,
                   activeSubmissions>>

\* the transaction of a submission is never mined: tx.wait() stays pending
SubmissionHangs ==
    /\ Cardinality(stuck) < MaxStuck
    /\ \E sub \in BagToSet(submissions) :
          /\ sub.pc = "wait"
          /\ submissions' = (submissions (-) SetToBag({sub}))
                (+) SetToBag({[sub EXCEPT !.pc = "hung"]})
    /\ UNCHANGED <<nonSchedVars, processor, nullifierHashes, withdrawals, submits, ticks,
                   activeSubmissions>>

\* the process dies and is started again: the table and the chain stay, the
\* calls in flight and the counter are gone; a transaction that was out may
\* still be mined
Crash ==
    /\ ~processor.restarted
    /\ processor' = [phase |-> "starting", restarted |-> TRUE]
    /\ submits' = EmptyBag
    /\ ticks' = EmptyBag
    /\ submissions' = EmptyBag
    /\ activeSubmissions' = 0
    /\ \E mined \in SUBSET {withdrawals[sub.id].nullifier_hash :
                               sub \in {s \in BagToSet(submissions) : s.pc = "wait"}} :
          nullifierHashes' = nullifierHashes \cup mined
    /\ UNCHANGED <<nonSchedVars, withdrawals>>

InitProcessor ==
    /\ TreeInit
    /\ SdkInit
    /\ PoolInit
    /\ ASPInit
    /\ NoteInit
    /\ CoordInit
    /\ lastInsert = [status |-> "none", leafIndex |-> 0]
    /\ tx = NoTx
    /\ receipt = NoReceipt
    /\ withdrawals \in PersistedTables
    /\ submits = EmptyBag
    /\ ticks = EmptyBag
    /\ submissions = EmptyBag
    /\ activeSubmissions = 0
    /\ processor = [phase |-> "starting", restarted |-> FALSE]

NextProcessor ==
    \/ Advance
    \/ FirstTick
    \/ FirstTickSettled
    \/ TickQuery
    \/ TickStart
    \/ SubmissionSelect
    \/ SubmissionSend
    \/ SubmissionMined
    \/ SubmissionCatch
    \/ SubmissionHangs

\* the event loop runs every callback that is ready, the interval keeps
\* firing and time passes; nothing makes a pending transaction settle
FairProcessor ==
    /\ WF_vars(Advance)
    /\ WF_vars(FirstTick)
    /\ WF_vars(FirstTickSettled)
    /\ WF_vars(TickQuery)
    /\ WF_vars(TickStart)
    /\ WF_vars(SubmissionSelect)
    /\ WF_vars(SubmissionSend)
    /\ WF_vars(SubmissionMined)
    /\ WF_vars(SubmissionCatch)

SpecProcessorFair == InitProcessor /\ [][NextProcessor]_vars /\ FairProcessor

NextRecovery ==
    \/ Advance
    \/ FirstTick
    \/ FirstTickSettled
    \/ TickQuery
    \/ TickStart
    \/ SubmissionSelect
    \/ SubmissionSend
    \/ SubmissionMined
    \/ SubmissionCatch
    \/ Crash

SpecRecoveryFair == InitProcessor /\ [][NextRecovery]_vars /\ FairProcessor

\* ------------------------------------------------------------------------
\* ASPRegistry.sol under its owner, next to the bare tree

MaxPublications == 4    \* updateASPRoot calls

\* the roots the owner publishes
RegistryRoots == {ZeroBytes32, <<21>>, <<22>>}

getLastASPRoot == aspRoots[aspCurrentRootIndex]

\* the owner's updateASPRoot(newRoot) transaction, executed
OwnerUpdateASPRoot ==
    /\ Len(updateCalls) < MaxPublications
    /\ \E newRoot \in RegistryRoots :
          LET r == updateASPRoot(newRoot) IN
          /\ aspCurrentRootIndex' = r.currentRootIndex
          /\ aspRoots' = r.aspRoots
          /\ updateCalls' = Append(updateCalls, newRoot)
    /\ UNCHANGED <<treeVars, lastInsert, sdkVars, poolVars, tx, receipt, noteVars, schedVars,
                   chainEvents, oracleUp, ofacAddresses, running, dbDeposits, aspTree,
                   queue, processing, subscribed, pubPending>>

InitRegistry == Init

NextRegistry ==
    \/ OwnerUpdateASPRoot
    \/ \E leaf \in Leaves : TreeInsert(leaf)

SpecRegistry == InitRegistry /\ [][NextRegistry]_vars

\* ------------------------------------------------------------------------
\* The relayer's ASPMerkleTree fed with approved commitments, and a client's
\* MerkleTree fed with the same list

MirrorCommitments == {<<1>>, <<2>>, <<3>>}

\* ASPMerkleTree.insert(commitment): the leaves pushed to, and the index
\* returned (rebuildTree derives the layers from the leaves)
aspInsert(leaves, commitment) ==
    [leaves |-> Append(leaves, commitment), index |-> Len(leaves)]

\* tree.insert(commitment) on the relayer's singleton
MirrorInsert ==
    /\ Len(aspTree) <= Pow2(TREE_DEPTH)
    /\ \E c \in MirrorCommitments : aspTree' = aspInsert(aspTree, c).leaves
    /\ UNCHANGED <<treeVars, lastInsert, sdkVars, poolVars, aspVars, tx, receipt, noteVars,
                   schedVars, chainEvents, oracleUp, ofacAddresses, running, dbDeposits,
                   queue, processing, subscribed, pubPending, updateCalls>>

\* the client inserts the next approved commitment into its MerkleTree
SdkMirrorInsert ==
    /\ Len(sdkLeaves) < Len(aspTree)
    /\ LET r == sdkInsert(aspTree[Len(sdkLeaves) + 1]) IN
        /\ sdkLeaves' = r.leaves
        /\ sdkLayers' = r.layers
        /\ sdkLastInsert' = [status |-> IF r.thrown THEN "Merkle tree is full" ELSE "ok",
                             index |-> r.index]
    /\ UNCHANGED <<treeVars, lastInsert, poolVars, aspVars, tx, receipt, extVars>>

InitMirror == Init

NextMirror ==
    \/ MirrorInsert
    \/ SdkMirrorInsert

SpecMirror == InitMirror /\ [][NextMirror]_vars

\* ------------------------------------------------------------------------
\* The deposit watcher with calls that fail

\* the watcher's call for the next event throws before processDeposit's
\* INSERT (resolveDepositor's RPC call fails); the watcher logs the error and
\* goes on
ResolveDepositorFails ==
    /\ running
    /\ subscribed \/ processing = {}
    /\ queue # <<>>
    /\ queue' = Tail(queue)
    /\ subscribed' = (subscribed \/ (Tail(queue) = <<>> /\ processing = {}))
    /\ UNCHANGED <<schedVars, treeVars, lastInsert, sdkVars, poolVars, aspVars, tx, receipt,
                   noteVars, chainEvents, oracleUp, ofacAddresses, running, dbDeposits,
                   aspTree, processing, pubPending, updateCalls>>

InitSync == Init

NextSync ==
    \/ DepositEvent
    \/ ProcessDepositBegin
    \/ ProcessDepositScreen
    \/ ResolveDepositorFails
    \/ OracleFails
    \/ OracleRecovers
    \/ Shutdown
    \/ Start

SpecSync == InitSync /\ [][NextSync]_vars

\* ------------------------------------------------------------------------
\* Claims about the pool

\* the step that executes the pending withdraw / deposit
WithdrawExecuted == tx.op = "withdraw" /\ tx' = NoTx
DepositExecuted == tx.op = "deposit" /\ tx' = NoTx

\* the roots held in the two root histories
PoolRootHistory == {roots[s] : s \in 0..(ROOT_HISTORY_SIZE - 1)}
ASPRootHistory == {aspRoots[s] : s \in 0..(ROOT_HISTORY_SIZE - 1)}

\* C1: for every nullifier hash, withdraw succeeds at most once; once it has
\* succeeded the nullifier stays spent, and every later withdraw with that
\* nullifier fails with NullifierAlreadySpent whatever its other arguments.
C1_WithdrawAtMostOncePerNullifier ==
    /\ [](\A n \in NullifierValues : spendCount[n] <= 1)
    /\ [][ /\ nullifierHashes \subseteq nullifierHashes'
           /\ (WithdrawExecuted /\ tx.nullifierHash \in nullifierHashes)
                 => receipt'.status = "NullifierAlreadySpent"
           /\ (WithdrawExecuted /\ receipt'.status = "ok")
                 => /\ tx.nullifierHash \notin nullifierHashes
                    /\ tx.nullifierHash \in nullifierHashes' ]_vars

C1_Witness ==
    /\ receipt.op = "withdraw"
    /\ receipt.status = "NullifierAlreadySpent"
    /\ \E n \in NullifierValues : spendCount[n] = 1

\* C2: a withdraw that fails at any gate or at a payout transfer leaves the
\* nullifier set and every balance as they were and sends nothing.
C2_FailedWithdrawHasNoEffect ==
    [][ (WithdrawExecuted /\ receipt'.status # "ok")
          => /\ nullifierHashes' = nullifierHashes
             /\ balance' = balance
             /\ spendCount' = spendCount
             /\ receipt'.payments = <<>>
             /\ receipt'.status # "NullifierAlreadySpent"
                   => tx.nullifierHash \notin nullifierHashes' ]_vars

C2_Witness ==
    /\ receipt.op = "withdraw"
    /\ receipt.status = "PaymentFailed"
    /\ balance[PoolAddress] >= denomination
    /\ nullifierHashes = {}

\* the error of the earliest failing gate, in the stated order
C3_FirstFailingGate(t) ==
    IF t.nullifierHash \in nullifierHashes THEN "NullifierAlreadySpent"
    ELSE IF t.root = ZeroBytes32 \/ t.root \notin PoolRootHistory THEN "InvalidMerkleRoot"
    ELSE IF t.aspRoot = ZeroBytes32 \/ t.aspRoot \notin ASPRootHistory THEN "Invalid ASP root"
    ELSE IF t.fee > denomination THEN "InvalidFee"
    ELSE IF ~t.proof.wellFormed \/ t.proof.statement # Statement(t) THEN "proof"
    ELSE "none"

\* C3: withdraw fails with the error of the earliest failing gate in the
\* order nullifier, pool root, compliance root, fee, proof; the verifier is
\* consulted only when the first four gates have passed.
C3_GatesInOrder ==
    [][ WithdrawExecuted
          => LET e == C3_FirstFailingGate(tx) IN
             /\ e \in {"NullifierAlreadySpent", "InvalidMerkleRoot", "Invalid ASP root", "InvalidFee"}
                   => (receipt'.status = e /\ ~receipt'.verifierCalled)
             /\ e = "proof" => receipt'.status \in {"ProofDecodeError", "InvalidWithdrawProof"}
             /\ e = "none" => receipt'.status \in {"ok", "PaymentFailed"}
             /\ receipt'.verifierCalled => e \in {"proof", "none"} ]_vars

C3_Witness ==
    /\ receipt.op = "withdraw"
    /\ receipt.status = "InvalidFee"
    /\ ~receipt.verifierCalled
    /\ nullifierHashes # {}

\* C4: withdraw succeeds only if its pool root is in the pool's root
\* history, its compliance root is in the registry's root history, its fee
\* is at most the denomination and its proof verifies for its arguments.
C4_SuccessNeedsAllGates ==
    [][ (WithdrawExecuted /\ receipt'.status = "ok")
          => /\ tx.root \in PoolRootHistory
             /\ tx.aspRoot \in ASPRootHistory
             /\ tx.fee <= denomination
             /\ tx.proof.wellFormed
             /\ groth16VerifyProof(tx.proof, Statement(tx)) ]_vars

C4_Witness ==
    /\ receipt.op = "withdraw"
    /\ receipt.status = "ok"
    /\ Len(receipt.payments) = 1

\* C5: a successful withdraw with fee f marks the nullifier spent, pays
\* denomination - f to the recipient first and then f to the relayer (no
\* second transfer when f = 0), and the pool's balance drops by denomination.
C5_SuccessfulWithdrawPayout ==
    [][ (WithdrawExecuted /\ receipt'.status = "ok")
          => /\ nullifierHashes' = nullifierHashes \cup {tx.nullifierHash}
             /\ receipt'.payments =
                   IF tx.fee > 0
                   THEN <<<<tx.recipient, denomination - tx.fee>>, <<tx.relayer, tx.fee>>>>
                   ELSE <<<<tx.recipient, denomination>>>>
             /\ balance'[PoolAddress] = balance[PoolAddress] - denomination
             /\ \A a \in Addresses \ {PoolAddress} :
                   balance'[a] = balance[a]
                                 + (IF a = tx.recipient THEN denomination - tx.fee ELSE 0)
                                 + (IF a = tx.relayer THEN tx.fee ELSE 0) ]_vars

C5_Witness ==
    /\ receipt.op = "withdraw"
    /\ receipt.status = "ok"
    /\ Len(receipt.payments) = 2
    /\ receipt.payments[1][1] # receipt.payments[2][1]
    /\ receipt.payments[1][2] > 0

\* C6: the proof withdraw accepts is one made for exactly the seven values
\* (root, nullifierHash, recipient, relayer, fee, refund, aspRoot) of the
\* call, in this order; a proof made for another recipient, relayer, fee or
\* refund is not accepted.
C6_ProofBoundToArguments ==
    [][ WithdrawExecuted
          => /\ receipt'.status = "ok"
                   => /\ Len(tx.proof.statement) = 7
                      /\ tx.proof.statement[1] = tx.root
                      /\ tx.proof.statement[2] = tx.nullifierHash
                      /\ tx.proof.statement[3] = <<tx.recipient>>
                      /\ tx.proof.statement[4] = <<tx.relayer>>
                      /\ tx.proof.statement[5] = <<tx.fee>>
                      /\ tx.proof.statement[6] = <<tx.refund>>
                      /\ tx.proof.statement[7] = tx.aspRoot
             /\ (tx.proof.wellFormed /\ receipt'.verifierCalled
                 /\ tx.proof.statement # Statement(tx))
                   => receipt'.status = "InvalidWithdrawProof" ]_vars

C6_Witness ==
    /\ receipt.op = "withdraw"
    /\ receipt.status = "ok"
    /\ balance[Alice] > 0
    /\ balance[Bob] > 0

\* C7: a deposit whose value is not the denomination fails with
\* InvalidDenomination, one whose commitment is already present fails with
\* CommitmentAlreadyExists, and a failed deposit changes neither the
\* commitment set, nor the accumulator, nor any balance.
C7_RejectedDepositHasNoEffect ==
    [][ DepositExecuted
          => /\ tx.value # denomination => receipt'.status = "InvalidDenomination"
             /\ (tx.value = denomination /\ tx.commitment \in commitments)
                   => receipt'.status = "CommitmentAlreadyExists"
             /\ receipt'.status # "ok"
                   => /\ commitments' = commitments
                      /\ balance' = balance
                      /\ UNCHANGED treeVars ]_vars

C7_Witness ==
    /\ receipt.op = "deposit"
    /\ receipt.status = "CommitmentAlreadyExists"
    /\ Len(leafLog) = Cardinality(commitments)

\* ------------------------------------------------------------------------
\* Claims about the accumulator

\* C8 (as claimed): the root produced by an insertion is known immediately
\* and after each of the next ROOT_HISTORY_SIZE - 1 insertions, and is not
\* known once ROOT_HISTORY_SIZE or more further insertions have occurred.
C8_RootKnownExactlyForWindow ==
    \A k \in 1..Len(rootLog) :
        LET further == Len(rootLog) - k IN
        /\ further < ROOT_HISTORY_SIZE => isKnownRoot(rootLog[k])
        /\ further >= ROOT_HISTORY_SIZE => ~isKnownRoot(rootLog[k])

\* C9: the root after streaming the leaves one at a time (on chain with
\* filledSubtrees, in the SDK with _rebuildFromIndex) is the root of the
\* tree built at once from the same leaves padded with empty leaves.
C9_IncrementalEqualsBatch ==
    /\ getLastRoot = aspRoot(PoseidonTag, leafLog)
    /\ \A k \in 1..Len(rootLog) : rootLog[k] = aspRoot(PoseidonTag, SubSeq(leafLog, 1, k))
    /\ sdkGetRoot = aspRoot(PoseidonTag, sdkLeaves)

C9_Witness ==
    /\ Len(leafLog) = Pow2(TREE_DEPTH)
    /\ Len(sdkLeaves) = Pow2(TREE_DEPTH)
    /\ leafLog[1] # leafLog[2]
    /\ leafLog[2] # ZeroBytes32
    /\ getLastRoot = sdkGetRoot

\* C10: for every index below the leaf count, getProof returns depth
\* siblings and depth direction bits, folding the leaf with them gives the
\* current root, and every proof reports that same root.
C10_ProofFoldsToRoot ==
    \A i \in 0..(Len(sdkLeaves) - 1) :
        LET p == sdkGetProof(i) IN
        /\ Len(p.pathElements) = TREE_DEPTH
        /\ Len(p.pathIndices) = TREE_DEPTH
        /\ \A l \in 1..TREE_DEPTH : p.pathIndices[l] \in {0, 1}
        /\ p.leaf = sdkLeaves[i + 1]
        /\ merkleFold(p.leaf, p.pathElements, p.pathIndices, 1) = sdkGetRoot
        /\ p.root = sdkGetRoot

C10_Witness ==
    /\ Len(sdkLeaves) >= 3
    /\ sdkLeaves[1] # sdkLeaves[2]
    /\ merkleFold(sdkLeaves[2], sdkGetProof(1).pathElements, sdkGetProof(1).pathIndices, 1)
           = sdkGetRoot
    /\ sdkGetRoot # sdkZeroValues(TREE_DEPTH)

\* C11: an insert on an accumulator that already holds 2^depth leaves is
\* rejected (MerkleTreeFull on chain, "Merkle tree is full" in the SDK tree)
\* and changes neither the leaf count, nor the stored nodes, nor the root
\* history; below capacity an insert is not rejected.
C11_FullInsertRejected ==
    /\ [](nextLeafIndex <= Pow2(TREE_DEPTH) /\ Len(sdkLeaves) <= Pow2(TREE_DEPTH))
    /\ [][ /\ nextLeafIndex >= Pow2(TREE_DEPTH)
                 => /\ UNCHANGED treeVars
                    /\ lastInsert' # lastInsert => lastInsert'.status = "MerkleTreeFull"
           /\ (nextLeafIndex < Pow2(TREE_DEPTH) /\ lastInsert' # lastInsert)
                 => lastInsert'.status = "ok"
           /\ Len(sdkLeaves) >= Pow2(TREE_DEPTH)
                 => /\ UNCHANGED <<sdkLeaves, sdkLayers>>
                    /\ sdkLastInsert' # sdkLastInsert
                          => sdkLastInsert'.status = "Merkle tree is full"
           /\ (Len(sdkLeaves) < Pow2(TREE_DEPTH) /\ sdkLastInsert' # sdkLastInsert)
                 => sdkLastInsert'.status = "ok" ]_vars

C11_Witness ==
    /\ lastInsert.status = "MerkleTreeFull"
    /\ sdkLastInsert.status = "Merkle tree is full"
    /\ nextLeafIndex = Pow2(TREE_DEPTH)
    /\ Len(sdkLeaves) = Pow2(TREE_DEPTH)
    /\ getLastRoot = sdkGetRoot

\* C12: the accumulator is append-only: a successful deposit gives its leaf
\* the index equal to the number of leaves inserted before it and emits that
\* index, nextLeafIndex grows by exactly one, a failed deposit adds nothing,
\* and no step changes the value or position of an earlier leaf, on chain or
\* in the client's replayed tree.
C12_AppendOnly ==
    /\ [](nextLeafIndex = Len(leafLog))
    /\ [][ /\ (DepositExecuted /\ receipt'.status = "ok")
                 => /\ receipt'.emitted = <<tx.commitment, Len(leafLog)>>
                    /\ nextLeafIndex' = nextLeafIndex + 1
                    /\ leafLog' = Append(leafLog, tx.commitment)
           /\ (DepositExecuted /\ receipt'.status # "ok")
                 => /\ UNCHANGED <<nextLeafIndex, leafLog>>
                    /\ receipt'.emitted = <<>>
           /\ Len(leafLog') >= Len(leafLog)
           /\ SubSeq(leafLog', 1, Len(leafLog)) = leafLog
           /\ Len(sdkLeaves') \in {Len(sdkLeaves), Len(sdkLeaves) + 1}
           /\ SubSeq(sdkLeaves', 1, Len(sdkLeaves)) = sdkLeaves
           /\ sdkLeaves' # sdkLeaves => sdkLastInsert'.index = Len(sdkLeaves) ]_vars

C12_Witness ==
    /\ receipt.op = "deposit"
    /\ receipt.status = "ok"
    /\ receipt.emitted[2] = 2
    /\ receipt.emitted[1] = leafLog[3]
    /\ Len(sdkLeaves) = 3
    /\ sdkLeaves = leafLog

\* ------------------------------------------------------------------------
\* Claims about sponsorship and blocking

\* the step that validates the pending user operation
ValidateExecuted == tx.op = "userOp" /\ tx' = NoTx

\* C13: the withdrawal and the sponsorship nullifier sets are separate
\* state: a withdraw never changes sponsorshipNullifiers, a validation never
\* changes nullifierHashes, no hash is ever in both, and a note's use in one
\* domain does not stand in the way of its one use in the other: a withdraw
\* or a sponsorship with known roots, a fresh nullifier of its own domain and
\* a valid proof succeeds whatever the other set holds, and succeeds at most
\* once per nullifier.
C13_SpendDomainsDisjoint ==
    /\ [](nullifierHashes \cap sponsorshipNullifiers = {})
    /\ [](\A h \in SpendKeys :
             /\ spendCount[h] <= 1
             /\ Cardinality({e \in sponsorLog : e.hash = h}) <= 1)
    /\ [][ /\ WithdrawExecuted => sponsorshipNullifiers' = sponsorshipNullifiers
           /\ ValidateExecuted => nullifierHashes' = nullifierHashes
           /\ (WithdrawExecuted /\ tx.nullifierHash \notin nullifierHashes
               /\ isKnownRoot(tx.root) /\ isKnownASPRoot(tx.aspRoot)
               /\ tx.proof.statement = Statement(tx))
                 => receipt'.status = "ok"
           /\ (ValidateExecuted /\ tx.nullifierHash \notin sponsorshipNullifiers
               /\ tx.maxCost <= maxGasSponsorship /\ tx.dataLength >= PaymasterDataLength
               /\ isKnownRoot(tx.merkleRoot) /\ isKnownASPRoot(tx.aspRoot)
               /\ tx.proof.statement = membershipPubSignals(tx))
                 => receipt'.status = "ok" ]_vars

C13_Witness ==
    \E a, b \in sponsorLog :
        /\ a.afterWithdraw
        /\ ~b.afterWithdraw
        /\ \E n \in Notes :
              /\ b.hash = noteSponsorshipNullifierHash(n)
              /\ noteNullifierHash(n) \in nullifierHashes
              /\ spendCount[noteNullifierHash(n)] = 1

\* C14: for every nullifier seed n, the withdrawal nullifier hash H(n) and
\* the sponsorship nullifier hash H(n, 2) derived from it are not equal, and
\* the two circuits constrain their public nullifier hash to these values.
C14_NullifierDomainsSeparated ==
    /\ \A n \in NullifierSeeds \cup {note.nullifier : note \in Notes} :
          nullifierHashOf(n) # sponsorshipNullifierHashOf(n)
    /\ \A note \in Notes :
          /\ noteNullifierHash(note) = poseidonHash1(note.nullifier)
          /\ noteSponsorshipNullifierHash(note) = poseidonHash2(note.nullifier, <<2>>)
          /\ noteNullifierHash(note) \in nullifierHashes
                => spendCount[noteNullifierHash(note)] = 1
          /\ noteSponsorshipNullifierHash(note) \notin nullifierHashes
          /\ noteNullifierHash(note) \notin sponsorshipNullifiers

C14_Witness ==
    \E note \in Notes :
        /\ noteNullifierHash(note) \in nullifierHashes
        /\ noteSponsorshipNullifierHash(note) \in sponsorshipNullifiers
        /\ receipt.op = "userOp"
        /\ receipt.status = "ok"

\* the error of the earliest failing check of a user operation, in the
\* order nullifier, pool root, compliance root, proof
C15_FirstFailingCheck(u) ==
    IF u.nullifierHash \in sponsorshipNullifiers THEN "NullifierAlreadyUsed"
    ELSE IF u.merkleRoot = ZeroBytes32 \/ u.merkleRoot \notin PoolRootHistory
    THEN "InvalidMerkleRoot"
    ELSE IF u.aspRoot = ZeroBytes32 \/ u.aspRoot \notin ASPRootHistory THEN "Invalid ASP root"
    ELSE IF u.proof.statement # <<u.merkleRoot, u.nullifierHash, u.aspRoot>>
    THEN "InvalidMembershipProof"
    ELSE "ok"

\* C15 (as claimed): a sponsorship nullifier passes validation at most once;
\* every later operation carrying it is rejected with NullifierAlreadyUsed
\* whatever proof and roots it carries, and the checks run in the order
\* nullifier, pool root, compliance root, proof.
C15_AsClaimed ==
    [][ ValidateExecuted
          => /\ tx.nullifierHash \in sponsorshipNullifiers
                   => receipt'.status = "NullifierAlreadyUsed"
             /\ receipt'.status \in {"NullifierAlreadyUsed", "InvalidMerkleRoot",
                                     "Invalid ASP root", "InvalidMembershipProof", "ok"}
                   => receipt'.status = C15_FirstFailingCheck(tx) ]_vars

\* C15 (amended): a sponsorship nullifier passes validation at most once; a
\* later operation carrying it is always rejected: with GasCostExceedsMax
\* when its maxCost is above maxGasSponsorship, else with
\* InvalidPaymasterDataLength when its paymaster data is shorter than 352
\* bytes, else with NullifierAlreadyUsed before the root and proof checks.
\* The order is cost cap, data length, nullifier, pool root, compliance
\* root, proof over the 3-value schema.
C15_SponsorshipAtMostOnce ==
    /\ [](\A h \in SpendKeys : Cardinality({e \in sponsorLog : e.hash = h}) <= 1)
    /\ [][ /\ sponsorshipNullifiers \subseteq sponsorshipNullifiers'
           /\ ValidateExecuted
                 => /\ receipt'.status =
                          IF tx.maxCost > maxGasSponsorship THEN "GasCostExceedsMax"
                          ELSE IF tx.dataLength < PaymasterDataLength
                          THEN "InvalidPaymasterDataLength"
                          ELSE C15_FirstFailingCheck(tx)
                    /\ tx.nullifierHash \in sponsorshipNullifiers
                          => /\ receipt'.status \in {"GasCostExceedsMax",
                                                     "InvalidPaymasterDataLength",
                                                     "NullifierAlreadyUsed"}
                             /\ ~receipt'.verifierCalled
                             /\ sponsorshipNullifiers' = sponsorshipNullifiers
                    /\ receipt'.status = "ok"
                          => /\ tx.nullifierHash \notin sponsorshipNullifiers
                             /\ sponsorshipNullifiers' =
                                   sponsorshipNullifiers \cup {tx.nullifierHash}
                    /\ receipt'.status # "ok"
                          => sponsorshipNullifiers' = sponsorshipNullifiers ]_vars

C15_Witness ==
    /\ receipt.op = "userOp"
    /\ receipt.status = "NullifierAlreadyUsed"
    /\ ~receipt.verifierCalled
    /\ sponsorLog # {}

\* C16 (as claimed): once the operator has blocked a commitment, every later
\* withdraw that spends that commitment fails.
C16_BlockedCommitmentCannotWithdraw ==
    [][ (WithdrawExecuted /\ tx.commitment \in blockedCommitments)
          => receipt'.status # "ok" ]_vars

\* ------------------------------------------------------------------------
\* Compliance coordinator

\* the commitment is a leaf of the relayer's ASP tree
IsASPLeaf(c) == \E i \in 1..Len(aspTree) : aspTree[i] = c

\* this step is the end of a processDeposit call
DepositProcessed(b) == b \in processing /\ processing' = processing \ {b} /\ running'

\* C17: when the screening oracle does not answer while a deposit is
\* processed, the deposit's row stays pending and its commitment is not
\* inserted into the relayer's ASP tree; in particular it is not approved.
C17_UnavailableLeavesPending ==
    [][ \A b \in 1..MaxEvents :
           (DepositProcessed(b) /\ ~oracleUp)
              => /\ dbDeposits'[chainEvents[b].commitment].screening_status = "pending"
                 /\ aspTree' = aspTree ]_vars

\* the row is pending and its processDeposit call awaits checkAddress
AwaitingScreening(c) ==
    /\ \E b \in processing : chainEvents[b].commitment = c
    /\ dbDeposits[c].screening_status = "pending"

\* C18: a deposit that is pending while the screening oracle does not
\* answer is evaluated again: if from some time on the oracle answers and
\* the relayer runs, the row eventually leaves pending.
C18_PendingReevaluated ==
    \A c \in CoordCommitments :
        []((AwaitingScreening(c) /\ ~oracleUp)
              => (<>[](oracleUp /\ running) => <>(dbDeposits[c].screening_status # "pending")))

\* C19: while the relayer runs and no deposit is being processed, a
\* commitment is a leaf of the ASP tree exactly if its row is approved, and
\* its asp_included flag is set exactly if it is a leaf.
C19_LeafIffApproved ==
    (running /\ processing = {})
       => \A c \in CoordCommitments :
             /\ IsASPLeaf(c) <=> dbDeposits[c].screening_status = "approved"
             /\ dbDeposits[c].asp_included <=> IsASPLeaf(c)

\* C20: the relayer never calls updateASPRoot twice with the same root.
C20_SameRootOneUpdate ==
    \A i, j \in 1..Len(updateCalls) : updateCalls[i] = updateCalls[j] => i = j

\* this step is an updateASPRoot call of the relayer, executed by the registry
RootPublished == Len(updateCalls') = Len(updateCalls) + 1

\* C21: the relayer's updateASPRoot call is made only for the root of a
\* non-empty ASP tree that the registry does not already know.
C21_PublishOnlyUnknownRootOfNonEmptyTree ==
    [][ RootPublished => /\ Len(aspTree) # 0
                         /\ ~isKnownASPRoot(updateCalls'[Len(updateCalls')]) ]_vars

\* this step is main() starting the relayer after a shutdown
Restarted == ~running /\ running'

\* C22: the ASP tree rebuilt at a restart has the root that the tree of the
\* stopped process had.
C22_RebuiltRootEqual ==
    [][ Restarted => aspRoot(KeccakTag, aspTree') = aspRoot(KeccakTag, aspTree) ]_vars

\* ------------------------------------------------------------------------
\* Withdrawal scheduler

InsertOf(req) == BagIn(req, submits) /\ submits' = submits (-) SetToBag({req})

\* C24: a well-formed request whose nullifier is unspent and has no
\* non-terminal row is persisted by queueWithdrawal as a new queued row.
C24_AcceptedWhenNoNonTerminal ==
    [][ \A req \in Requests :
           (InsertOf(req) /\ validateWithdrawRequest(req) = "valid")
              => /\ Len(withdrawals') = Len(withdrawals) + 1
                 /\ withdrawals'[Len(withdrawals')].nullifier_hash = req.nullifierHash
                 /\ withdrawals'[Len(withdrawals')].status = "queued" ]_vars

\* this step schedules row id: the row is new or goes back to 'queued'
Scheduled(id) ==
    /\ id <= Len(withdrawals')
    /\ withdrawals'[id].status = "queued"
    /\ id > Len(withdrawals) \/ withdrawals[id].status # "queued"

\* C25: a row scheduled at submit or at a re-queue has its scheduled_at in
\* [now + minWithdrawalDelay, now + maxWithdrawalDelay].
C25_ScheduledWithinDelays ==
    [][ \A id \in 1..MaxRequests :
           Scheduled(id)
              => /\ now + minWithdrawalDelay <= withdrawals'[id].scheduled_at
                 /\ withdrawals'[id].scheduled_at <= now + maxWithdrawalDelay ]_vars

\* a row re-queued with the longest delay, and a row queued by a submit with
\* the shortest one
C25_Witness ==
    /\ minWithdrawalDelay <= maxWithdrawalDelay
    /\ \E id \in 1..Len(withdrawals) :
          /\ withdrawals[id].status = "queued"
          /\ withdrawals[id].retry_count > 0
          /\ withdrawals[id].scheduled_at = now + computeJitterMs(RandomSteps - 1)

\* this step is the catch block of the call sub, which failed with error
Caught(sub, error) ==
    /\ BagIn(sub, submissions)
    /\ sub.pc = "catch" /\ sub.error = error
    /\ submissions' = submissions (-) SetToBag({sub})

\* the calls submitWithdrawal can be in
Submissions ==
    [id : 1..MaxRequests, pc : {"select", "send", "wait", "catch"},
     retry_count : 0..maxRetries, error : {"none", "spent", "transient", "revert"}]

\* C26: a submission that finds the nullifier spent ends with the row
\* 'rejected' and the retry counter as it was: the row is not re-queued.
C26_SpentEndsRejected ==
    [][ \A sub \in Submissions :
           Caught(sub, "spent")
              => /\ withdrawals'[sub.id].status = "rejected"
                 /\ withdrawals'[sub.id].retry_count = withdrawals[sub.id].retry_count ]_vars

\* C27: a failed attempt increments the row's retry counter by exactly one
\* and re-queues the row while the counter is below maxRetries, else marks
\* it failed; a confirmation leaves the counter; the counter never exceeds
\* maxRetries.
C27_RetryCountedOnce ==
    [][ /\ \A sub \in Submissions :
              (Caught(sub, "transient") \/ Caught(sub, "revert"))
                 => /\ withdrawals'[sub.id].retry_count = withdrawals[sub.id].retry_count + 1
                    /\ withdrawals'[sub.id].status =
                          IF withdrawals'[sub.id].retry_count < maxRetries
                          THEN "queued" ELSE "failed"
        /\ \A id \in 1..Len(withdrawals) :
              /\ withdrawals'[id].retry_count <= maxRetries
              /\ (withdrawals'[id].status = "confirmed" /\ withdrawals[id].status # "confirmed")
                    => withdrawals'[id].retry_count = withdrawals[id].retry_count ]_vars

\* the moves of a row's status: the lifecycle, the counted retry, and the
\* two failure branches
Lifecycle(old, new) ==
    \/ <<old.status, new.status>> \in
          {<<"queued", "processing">>, <<"processing", "submitted">>,
           <<"submitted", "confirmed">>}
    \/ /\ old.status \in {"processing", "submitted"}
       /\ new.status \in {"queued", "failed"}
       /\ new.retry_count = old.retry_count + 1
    \/ old.status = "processing" /\ new.status = "rejected"

\* C28: no step changes the status or the retry counter of a confirmed,
\* failed or rejected row (so none schedules it again), and the status of
\* another row changes only along the lifecycle.
C28_TerminalAbsorbing ==
    [][ \A id \in 1..Len(withdrawals) :
           IF withdrawals[id].status \in TerminalStatuses
           THEN /\ withdrawals'[id].status = withdrawals[id].status
                /\ withdrawals'[id].retry_count = withdrawals[id].retry_count
           ELSE \/ withdrawals'[id].status = withdrawals[id].status
                \/ Lifecycle(withdrawals[id], withdrawals'[id]) ]_vars

\* C29: a submission that failed on an invalid proof or on a state conflict
\* does not put its row back to 'queued'.
C29_StructuralFailureNotRetried ==
    [][ \A sub \in Submissions :
           (Caught(sub, "revert") \/ Caught(sub, "spent"))
              => withdrawals'[sub.id].status # "queued" ]_vars

\* C30: at most MAX_CONCURRENT submitWithdrawal calls started by the
\* processor are in flight, and activeSubmissions counts them.
C30_InFlightCapped ==
    /\ BagCardinality(submissions) <= MAX_CONCURRENT
    /\ activeSubmissions = BagCardinality(submissions)

\* the cap is reached while a tick holds an answer of getDueWithdrawals
C30_Witness ==
    /\ BagCardinality(submissions) = MAX_CONCURRENT
    /\ ticks # EmptyBag

\* ------------------------------------------------------------------------
\* Claims about the root histories

\* the publications after the k-th one
Further(k) == Len(updateCalls) - k

\* one of the latest ROOT_HISTORY_SIZE publications after the k-th one
\* published its root again
PublishedAgain(k) ==
    \E j \in (k + 1)..Len(updateCalls) :
        updateCalls[j] = updateCalls[k] /\ Further(j) < ROOT_HISTORY_SIZE

C34_ZeroRootNeverKnown ==
    /\ ~isKnownRoot(ZeroBytes32)
    /\ ~isKnownASPRoot(ZeroBytes32)

\* updateASPRoot(0) was the last call, after a non-zero root, and a slot of
\* the pool's history is still unfilled
C34_Witness ==
    /\ Len(updateCalls) > 1 /\ updateCalls[Len(updateCalls)] = ZeroBytes32
    /\ updateCalls[1] # ZeroBytes32
    /\ getLastASPRoot = ZeroBytes32
    /\ ZeroBytes32 \in PoolRootHistory

\* C38: the pool's balance is denomination times the number of successful
\* deposits less the number of spent nullifiers.
C38_BalanceCoversUnspentDeposits ==
    balance[PoolAddress]
        = denomination * (Cardinality(commitments) - Cardinality(nullifierHashes))

\* a withdraw with a fee has been paid out while another nullifier is unspent
C38_Witness ==
    /\ receipt.op = "withdraw" /\ receipt.status = "ok"
    /\ Len(receipt.payments) = 2
    /\ Cardinality(nullifierHashes) = 1
    /\ balance[PoolAddress] > 0

\* the submitWithdrawal calls for row id that have read the row's status and
\* not yet written its final one
Executing(id) ==
    {sub \in BagToSet(submissions) : sub.id = id /\ sub.pc \in {"send", "wait", "catch"}}

\* C39: at most one submitWithdrawal call per row is between its status read
\* and its final status write, so no row has two withdraw transactions out
\* at once.
C39_OneExecutionPerRequest ==
    \A id \in 1..Len(withdrawals) :
        /\ Cardinality(Executing(id)) <= 1
        /\ \A sub \in Executing(id) : CopiesIn(sub, submissions) = 1

\* C40: each commitment is at most once among the leaves of the relayer's
\* ASP tree.
C40_CommitmentOnceInASPTree ==
    \A i, j \in 1..Len(aspTree) : aspTree[i] = aspTree[j] => i = j

\* ------------------------------------------------------------------------
\* Claims about the relayer's ASP tree

\* C35: ASPMerkleTree.insert on a tree of 2^depth leaves is rejected: no
\* insert stores a leaf beyond 2^depth or returns an index >= 2^depth.
C35_MirrorInsertRejectedAtCapacity ==
    [][ \A c \in MirrorCommitments :
           aspTree' = aspInsert(aspTree, c).leaves
              => /\ aspInsert(aspTree, c).index < Pow2(TREE_DEPTH)
                 /\ Len(aspTree') <= Pow2(TREE_DEPTH) ]_vars

\* C36: for the same list of approved commitments and the same depth the
\* root of the relayer's ASP tree is the root of the SDK MerkleTree.
C36_MirrorRootIsClientRoot ==
    (Len(aspTree) > 0 /\ sdkLeaves = aspTree) => aspRoot(KeccakTag, aspTree) = sdkGetRoot

\* the Deposit event of block b has its row in table deposits
Recorded(b) == dbDeposits[chainEvents[b].commitment].block_number = b

\* C37: the historical sync of a start hands every Deposit event without a
\* row to processDeposit, also when a later event of its pool has a row.
C37_StartSyncsEveryMissedDeposit ==
    [][ Restarted
           => \A b \in 1..Len(chainEvents) :
                 ~Recorded(b) => \E i \in 1..Len(queue') : queue'[i] = b ]_vars

\* ------------------------------------------------------------------------
\* Claims about the processor from its start-up on

\* the row is queued and its scheduled_at has passed
Due(id) ==
    /\ id <= Len(withdrawals)
    /\ withdrawals[id].status = "queued"
    /\ withdrawals[id].scheduled_at <= now

\* C31: while fewer than MAX_CONCURRENT submissions are stuck, every queued
\* request whose scheduled_at has passed is eventually selected, also when
\* the stuck submission was started by the first tick after the start
C31_DueRequestsSelectedDespiteStuck ==
    \A id \in 1..MaxRequests :
        [](((Cardinality(stuck) < MAX_CONCURRENT) /\ Due(id))
              => <>(withdrawals[id].status # "queued"))

\* the same once the interval is installed
PollingSelectsDueRequests ==
    \A id \in 1..MaxRequests :
        [](((Cardinality(stuck) < MAX_CONCURRENT) /\ Due(id) /\ processor.phase = "polling")
              => <>(withdrawals[id].status # "queued"))

\* the row is neither finished nor waiting for its time
Stranded(id) ==
    /\ id <= Len(withdrawals)
    /\ withdrawals[id].status \in {"processing", "submitted"}

\* C32: a request that is processing or submitted after a crash and restart
\* eventually reaches a terminal status
C32_RequestsResolvedAfterRestart ==
    \A id \in 1..MaxRequests :
        []((processor.restarted /\ Stranded(id))
              => <>(withdrawals[id].status \in TerminalStatuses))

\* the same for a process that has not crashed
UncrashedRequestsResolved ==
    \A id \in 1..MaxRequests :
        []((~processor.restarted /\ id <= Len(withdrawals))
              => <>(processor.restarted \/ withdrawals[id].status \in TerminalStatuses))

====
